---- MODULE Spec2Model ----
\* Detection & response pipeline of the EDR agent: the event bus with its
\* asynchronous dispatch pool, the incident lifecycle manager with its JSON
\* persistence, the HMAC-chained audit logger over the audit_log table, the
\* thread pool on its own, and the per-process risk scorer.
EXTENDS Integers, Sequences, FiniteSets, TLC

\* ---------------------------------------------------------------- bounds
\* last clock reading
MaxTime == 1
\* associated events kept by all incidents together
MaxEvents == 2
\* containment records kept by all incidents together
MaxActions == 1
\* queued pool tasks
MaxTasks == 3
\* direct LogAction calls counted by one logger
MaxChain == 2
\* entries counted by a logger subscribed to the bus
MaxAudit == 3
\* largest process id; pid 0 gets no risk snapshot
MaxPid == 1

\* subscriptions made on the bus by the test handlers
MaxSubs == 3
\* events handed to the bus by the test publisher, or tasks to a pool
MaxPublished == 2
\* calls of ThreadPool::Shutdown on one pool
MaxShutdowns == 2
\* longest pattern and longest text handed to WildcardMatch
MaxPattern == 3
MaxText == 3
\* times one reason may be added to one pid's contributing_factors
MaxRepeats == 2
\* events one process timeline may hold
MaxTimeline == 4
\* threads that publish events for one pid at the same time
MaxPublishers == 2

Pids == 0..MaxPid

\* ------------------------------------------------------- program constants
\* enum class IncidentState, in declaration order
\* IncidentState::NEW (NEW is a reserved word)
NEW_STATE == 0
INVESTIGATING == 1
ACTIVE == 2
CONTAINED == 3
CLOSED == 4
ESCALATED == 5

\* enum class RiskLevel, in declaration order
LOW == 0
MEDIUM == 1
HIGH == 2
CRITICAL == 3

\* EventBus::InitAsyncPool(2) in the engine's Initialize
NumWorkers == 2
Workers == 1..NumWorkers

GENESIS == "GENESIS"
HmacKey == "k"

NoTask == [type |-> "NONE"]

\* ---------------------------------------------------------------- state
VARIABLES
    now,               \* system_clock reading, in ms
    subscribers_,      \* EventBus: registrations <<id, type, handler>> in order
    next_id_,          \* EventBus: next SubscriptionId
    async_pool_,       \* EventBus: TRUE when the async pool exists
    tasks_,            \* ThreadPool: FIFO of queued tasks
    worker_task,       \* ThreadPool: the task each worker has popped
    im_running,        \* IncidentManager::running_
    risk_sub_id_,      \* IncidentManager: id of the risk subscription (0 = none)
    containment_sub_id_, \* IncidentManager: id of the containment subscription
    incidents_,        \* IncidentManager: incidents, uuid = index
    pid_to_incident_,  \* IncidentManager: pid -> uuid (0 = no entry)
    files,             \* incidents directory: uuid -> the incident as last written
    state_changes_published, \* history: IncidentStateChange events the manager has published
    process_scores_,   \* RiskScorer: pid -> RiskScore, absent pids have no entry
    threshold_low_,    \* RiskScorer: level thresholds
    threshold_medium_,
    threshold_high_,
    threshold_critical_,
    set_thresholds,    \* RiskScorer::SetThresholds in progress: assignments done, arguments
    scorer_last,       \* history: type and pid of the event ProcessEvent handled last
    al_running,        \* AuditLogger::running_
    al_subs,           \* AuditLogger::subscription_ids_
    database_,         \* AuditLogger: TRUE when bound to the store
    last_hash_,        \* AuditLogger: chain tip
    entry_count_,      \* AuditLogger: entry counter
    audit_log,         \* store: rows of audit_log ascending by sequence_id
    audit_seq,         \* store: last AUTOINCREMENT value
    db_ok,             \* store: whether the next row insert succeeds
    write_failed,      \* history: some audit insert has failed
    tampered,          \* history: sequence_id altered by a raw store update (0 = none)
    restarted,         \* history: a logger was initialised against a non-empty store
    last_result,       \* history: outcome of the call just made, if any
    stop_,             \* ThreadPool::stop_
    workers_,          \* ThreadPool::workers_: the worker threads not yet joined
    worker_exited,     \* ThreadPool: whether each worker's thread function has returned
    shutdown_pc,       \* ThreadPool::Shutdown: "idle", or "joining" while a call waits
    shutdown_returns,  \* history: number of Shutdown calls that have returned
    ran,               \* history: handler invocations and pool tasks, in completion order
    publish_log,       \* history: the test publisher's calls in order: what was handed over,
                       \* how it was served, the handlers registered for it, the
                       \* number of Shutdown calls returned at that time and
                       \* whether a Shutdown call was waiting for the workers
    pattern,           \* RuleEngine::WildcardMatch: the pattern argument, a sequence of characters
    text,              \* RuleEngine::WildcardMatch: the text argument
    wildcard_result,   \* RuleEngine::WildcardMatch: the value returned for them
    pending,           \* per publisher thread: the Event it has constructed and not
                       \* yet handed to EventBus::Publish, or NoEvent
    process_timelines_,\* BehaviorCorrelator: pid -> events of its ProcessTimeline
    detected,          \* history: the patterns the last OnEvent emitted, in order
    incident_rows,     \* DatabaseManager: the incidents table, uuid -> row
    upserted,          \* history: uuid -> the incident last handed to UpsertIncident
    loaded,            \* the value the last LoadIncident returned
    publishing,        \* per thread inside EventBus::Publish: the event, its
                       \* handlers_copy and the position in it, or NoPublish
    unsubscribe_returned, \* history: the ids whose Unsubscribe call has returned
    late_invocations,  \* history: ids of handlers invoked after that return
    holder,            \* per mutex: the thread that owns it, or 0
    stack,             \* per thread: the steps it still has to take, innermost call first
    issued,            \* number of collector publishes and operator calls started
    invoked_under,     \* history: the mutexes a thread owned when a handler was invoked
    engine_pc,         \* CortexEDR: how far Initialize, Start and Stop have got
    containments_published, \* history: ContainmentAction events the containment manager has published
    re_running,        \* RuleEngine::running_
    re_subscription_id_, \* RuleEngine::subscription_id_, 0 when none
    bc_running,        \* BehaviorCorrelator::running_
    bc_subscription_ids_, \* BehaviorCorrelator::subscription_ids_
    cm_running,        \* ContainmentManager::running_
    cm_subscription_id_, \* ContainmentManager::subscription_id_, 0 when none
    stops,             \* per analyser: the Stop calls that have returned
    al_pc,             \* where AuditLogger::Start or Stop stands when run step by step
    shm,               \* the mapped SharedStatus, NoStatus before Create
    update,            \* SharedMemoryServer::Update in progress: its argument and the fields still to copy
    read,              \* SharedMemoryClient::Read in progress: its local status and the fields still to copy
    read_result,       \* what the last Read returned
    updates,           \* history: the arguments of the Update calls made
    mutex_,            \* BehaviorCorrelator::mutex_: the thread that owns it, 0 when free
    bc_pc,             \* per thread: its position in BehaviorCorrelator::OnEvent, 0 outside
    timeline_copy,     \* per thread: OnEvent's local timeline_copy
    has_timeline,      \* per thread: OnEvent's local has_timeline
    rules_,            \* RuleEngine::rules_, the names of the rules
    re_mutex_,         \* RuleEngine::mutex_: its owner, "none" when free
    load,              \* LoadRules in progress: the nodes of the file and the next one
    load_result,       \* what the last LoadRules returned
    loads,             \* history: LoadRules calls made
    in_place,          \* history: the ruleset of the last LoadRules that returned true
    evaluated,         \* history: the rulesets OnEvent has matched events against
    original,          \* history: the stored chain before rows were removed from it
    removed            \* history: rows removed from the store

vars == <<now, subscribers_, next_id_, async_pool_, tasks_, worker_task,
          im_running, risk_sub_id_, containment_sub_id_, incidents_,
          pid_to_incident_, files, state_changes_published, process_scores_,
          threshold_low_, threshold_medium_, threshold_high_,
          threshold_critical_, set_thresholds, scorer_last,
          al_running, al_subs, database_, last_hash_, entry_count_,
          audit_log, audit_seq, db_ok, write_failed, tampered, restarted,
          last_result, stop_, workers_, worker_exited, shutdown_pc,
          shutdown_returns, ran, publish_log, pattern, text, wildcard_result,
          pending, process_timelines_, detected, incident_rows, upserted,
          loaded, publishing, unsubscribe_returned, late_invocations,
          holder, stack, issued, invoked_under, engine_pc,
          containments_published, re_running, re_subscription_id_, bc_running,
          bc_subscription_ids_, cm_running, cm_subscription_id_, stops, al_pc, shm, update, read,
          read_result, updates, mutex_, bc_pc, timeline_copy, has_timeline,
          rules_, re_mutex_, load, load_result, loads, in_place, evaluated,
          original, removed>>

busVars == <<subscribers_, next_id_, async_pool_, tasks_, worker_task>>
imVars == <<im_running, risk_sub_id_, containment_sub_id_, incidents_, pid_to_incident_, files, state_changes_published>>
alVars == <<al_running, al_subs, database_, last_hash_, entry_count_>>
dbVars == <<audit_log, audit_seq, db_ok, write_failed, tampered, restarted>>
poolVars == <<stop_, workers_, worker_exited, shutdown_pc, shutdown_returns>>
correlatorVars == <<pending, process_timelines_, detected>>
storeVars == <<incident_rows, upserted, loaded>>
unsubVars == <<publishing, unsubscribe_returned, late_invocations>>
lockVars == <<holder, stack, issued, invoked_under>>
lifeVars == <<engine_pc, containments_published>>
analyserVars == <<re_running, re_subscription_id_, bc_running, bc_subscription_ids_,
                  cm_running, cm_subscription_id_, stops>>
stepVars == <<al_pc>>
shmVars == <<shm, update, read, read_result, updates>>
scanVars == <<mutex_, bc_pc, timeline_copy, has_timeline>>
ruleVars == <<rules_, re_mutex_, load, load_result, loads, in_place, evaluated>>
removalVars == <<original, removed>>
laterVars == <<shmVars, scanVars, ruleVars, removalVars>>
restVars == <<analyserVars, stepVars, laterVars>>
extraVars == <<storeVars, unsubVars, lockVars, lifeVars, restVars>>
engineVars == <<pattern, text, wildcard_result, correlatorVars, extraVars>>
scorerVars == <<process_scores_, threshold_low_, threshold_medium_, threshold_high_, threshold_critical_, set_thresholds, scorer_last>>
baseVars == <<now, last_result, busVars, imVars, alVars, dbVars, scorerVars,
              poolVars, publish_log, ran, pattern, text, wildcard_result,
              correlatorVars, storeVars, unsubVars, lockVars, lifeVars>>

\* ------------------------------------------------------------ conversions
Pad3(n) ==
    IF n < 10 THEN "00" \o ToString(n)
    ELSE IF n < 100 THEN "0" \o ToString(n)
    ELSE ToString(n)

\* seconds part (calendar date and time of day) and "%03d" milliseconds
TimestampToISO8601(ms_epoch) ==
    "T" \o ToString(ms_epoch \div 1000) \o "." \o Pad3(ms_epoch % 1000) \o "Z"

IncidentStateToString(state) ==
    CASE state = NEW_STATE -> "NEW"
      [] state = INVESTIGATING -> "INVESTIGATING"
      [] state = ACTIVE -> "ACTIVE"
      [] state = CONTAINED -> "CONTAINED"
      [] state = CLOSED -> "CLOSED"
      [] state = ESCALATED -> "ESCALATED"
      [] OTHER -> "UNKNOWN"

RiskLevelToString(level) ==
    IF level = LOW THEN "LOW"
    ELSE IF level = MEDIUM THEN "MEDIUM"
    ELSE IF level = HIGH THEN "HIGH"
    ELSE "CRITICAL"

\* keys an event's metadata can carry, in the order nlohmann::json dumps them
MetaKeys == <<"action", "bonus_score", "description", "from_state",
              "incident_uuid", "pattern_name", "reason", "risk_level",
              "state", "to_state">>

RECURSIVE JsonMembers(_, _, _)
JsonMembers(meta, i, first) ==
    IF i > Len(MetaKeys) THEN ""
    ELSE IF MetaKeys[i] \in DOMAIN meta
         THEN (IF first THEN "" ELSE ",") \o MetaKeys[i] \o ":" \o meta[MetaKeys[i]]
              \o JsonMembers(meta, i + 1, FALSE)
         ELSE JsonMembers(meta, i + 1, first)

\* nlohmann::json details; details[key] = value; details.dump()
JsonDump(meta) ==
    IF DOMAIN meta = {} THEN "null" ELSE "{" \o JsonMembers(meta, 1, TRUE) \o "}"

\* Event(type, pid, name): timestamp set at construction
Event(type, pid, name, meta) ==
    [type |-> type, timestamp |-> now, pid |-> pid, process_name |-> name,
     metadata |-> meta]

NoMeta == [k \in {} |-> ""]

\* ---------------------------------------------------------------- world
\* The part of the state that handlers running inside one publish can change.
World ==
    [incidents_ |-> incidents_, pid_to_incident_ |-> pid_to_incident_,
     files |-> files, tasks_ |-> tasks_, audit_log |-> audit_log,
     audit_seq |-> audit_seq, last_hash_ |-> last_hash_,
     entry_count_ |-> entry_count_, write_failed |-> write_failed,
     published |-> <<>>, ran |-> ran, exception |-> FALSE]

\* ------------------------------------------------------------ audit logger
ComputeHMAC(data) == "hmac(" \o HmacKey \o "," \o data \o ")"

ComputeEntryHashFromStrings(timestamp_iso, action, actor, target, details, prev_hash) ==
    ComputeHMAC(timestamp_iso \o "|" \o action \o "|" \o actor \o "|" \o target
                \o "|" \o details \o "|" \o prev_hash)

ComputeEntryHash(entry) ==
    ComputeHMAC(TimestampToISO8601(entry.timestamp) \o "|" \o entry.action \o "|"
                \o entry.actor \o "|" \o entry.target \o "|" \o entry.details
                \o "|" \o entry.prev_hash)

\* DatabaseManager::InsertAuditEntry: returns nothing; a failed step is only logged
InsertAuditEntry(w, timestamp, action, actor, target, details, prev_hash, entry_hash) ==
    IF db_ok
    THEN [w EXCEPT !.audit_seq = @ + 1,
                   !.audit_log = Append(@,
                       [sequence_id |-> w.audit_seq + 1,
                        timestamp |-> TimestampToISO8601(timestamp),
                        action |-> action, actor |-> actor, target |-> target,
                        details |-> details, prev_hash |-> prev_hash,
                        entry_hash |-> entry_hash])]
    ELSE [w EXCEPT !.write_failed = TRUE]

LogAction(w, action, actor, target, details) ==
    LET tentative == [timestamp |-> now, action |-> action, actor |-> actor,
                      target |-> target, details |-> details,
                      prev_hash |-> w.last_hash_]
        entry_hash == ComputeEntryHash(tentative)
        w1 == IF database_
              THEN InsertAuditEntry(w, tentative.timestamp, action, actor, target,
                                    details, tentative.prev_hash, entry_hash)
              ELSE w
    IN [w1 EXCEPT !.last_hash_ = entry_hash, !.entry_count_ = @ + 1]

\* only the linkage of the rows is compared
RECURSIVE VerifyRows_LinkageOnly(_, _, _)
VerifyRows_LinkageOnly(rows, i, expected_prev) ==
    IF i > Len(rows) THEN [ok |-> TRUE, seq |-> 0]
    ELSE IF rows[i].prev_hash # expected_prev
         THEN [ok |-> FALSE, seq |-> rows[i].sequence_id]
    ELSE VerifyRows_LinkageOnly(rows, i + 1, rows[i].entry_hash)

RECURSIVE VerifyRows(_, _, _)
VerifyRows(rows, i, expected_prev) ==
    IF i > Len(rows) THEN [ok |-> TRUE, seq |-> 0]
    ELSE IF rows[i].prev_hash # expected_prev
         THEN [ok |-> FALSE, seq |-> rows[i].sequence_id]
    ELSE IF ComputeEntryHashFromStrings(rows[i].timestamp, rows[i].action,
                 rows[i].actor, rows[i].target, rows[i].details,
                 rows[i].prev_hash) # rows[i].entry_hash
         THEN [ok |-> FALSE, seq |-> rows[i].sequence_id]
    ELSE VerifyRows(rows, i + 1, rows[i].entry_hash)

\* the rows are also counted against the logger's entry_count_
VerifyIntegrity_CountsEntries ==
    IF ~database_ \/ Len(audit_log) # entry_count_ THEN [ok |-> FALSE, seq |-> 0]
    ELSE VerifyRows(audit_log, 1, GENESIS)

\* result and the sequence_id named by the diagnostic (0 when none)
VerifyIntegrity ==
    IF ~database_ THEN [ok |-> FALSE, seq |-> 0]
    ELSE VerifyRows(audit_log, 1, GENESIS)

ALTarget(event) ==
    IF event.process_name = "" THEN "PID:" \o ToString(event.pid)
    ELSE event.process_name

AL_OnRiskThresholdExceeded(w, event) ==
    LogAction(w, "RISK_THRESHOLD_EXCEEDED", "system",
              "PID:" \o ToString(event.pid), JsonDump(event.metadata))

AL_OnIncidentStateChange(w, event) ==
    LogAction(w, "INCIDENT_STATE_CHANGE", "system", ALTarget(event),
              JsonDump(event.metadata))

AL_OnContainmentAction(w, event) ==
    LogAction(w, "CONTAINMENT_ACTION", "system",
              "PID:" \o ToString(event.pid), JsonDump(event.metadata))

\* ---------------------------------------------------------------- event bus
RECURSIVE Publish(_, _)

\* ThreadPool::Enqueue: refused with std::runtime_error once stop_ is set
Enqueue(w, task) ==
    IF stop_ THEN [w EXCEPT !.exception = TRUE]
    ELSE [w EXCEPT !.tasks_ = Append(@, task)]

\* EventBus::PublishAsync: queue on the pool, or publish on the caller's thread
PublishAsync(w, event) ==
    LET w1 == [w EXCEPT !.published = Append(@, event)]
    IN IF async_pool_
       THEN Enqueue(w1, event)
       ELSE Publish(w1, event)

\* ------------------------------------------------------------ risk scorer
\* RiskScore(): score(0), level(RiskLevel::LOW), no factors
RiskScoreDefault == [score |-> 0, level |-> LOW, contributing_factors |-> <<>>]

GetProcessRiskScore(pid) ==
    IF pid \in DOMAIN process_scores_ THEN process_scores_[pid]
    ELSE RiskScoreDefault

CalculateLevel(score) ==
    IF score >= threshold_critical_ THEN CRITICAL
    ELSE IF score >= threshold_high_ THEN HIGH
    ELSE IF score >= threshold_medium_ THEN MEDIUM
    ELSE IF score >= threshold_low_ THEN MEDIUM
    ELSE LOW

\* for (const auto& [factor, score] : risk.contributing_factors) risk.score += score;
\* uint32_t additions: a contribution is at most 20 * MaxRepeats and there are
\* five reasons, so no sum comes near 2^32 and none wraps
RECURSIVE SumFactors(_, _)
SumFactors(factors, reasons) ==
    IF reasons = {} THEN 0
    ELSE LET r == CHOOSE x \in reasons : TRUE
         IN factors[r] + SumFactors(factors, reasons \ {r})

Min(a, b) == IF a < b THEN a ELSE b

\* the sum is stored without the clamp to 100
AddRisk_NoClamp(scores, pid, reason, points) ==
    LET risk == IF pid \in DOMAIN scores THEN scores[pid] ELSE RiskScoreDefault
        old == risk.contributing_factors
        factors == [r \in DOMAIN old \cup {reason} |->
                       IF r = reason
                       THEN (IF r \in DOMAIN old THEN old[r] ELSE 0) + points
                       ELSE old[r]]
        score == SumFactors(factors, DOMAIN factors)
    IN [p \in DOMAIN scores \cup {pid} |->
           IF p = pid
           THEN [score |-> score, level |-> CalculateLevel(score),
                 contributing_factors |-> factors]
           ELSE scores[p]]

\* auto& risk = process_scores_[pid]; risk.contributing_factors[reason] += points;
AddRisk(scores, pid, reason, points) ==
    LET risk == IF pid \in DOMAIN scores THEN scores[pid] ELSE RiskScoreDefault
        old == risk.contributing_factors
        factors == [r \in DOMAIN old \cup {reason} |->
                       IF r = reason
                       THEN (IF r \in DOMAIN old THEN old[r] ELSE 0) + points
                       ELSE old[r]]
        score == Min(SumFactors(factors, DOMAIN factors), 100)
    IN [p \in DOMAIN scores \cup {pid} |->
           IF p = pid
           THEN [score |-> score, level |-> CalculateLevel(score),
                 contributing_factors |-> factors]
           ELSE scores[p]]

\* Paths and registry keys are sequences of their backslash-separated
\* components. ToLower is std::transform(..., ::tolower) on the components
\* the inputs use.
ToLower(component) ==
    CASE component = "Temp" -> "temp"
      [] component = "AppData" -> "appdata"
      [] component = "System32" -> "system32"
      [] component = "SysWOW64" -> "syswow64"
      [] component = "Windows" -> "windows"
      [] component = "Run" -> "run"
      [] component = "Services" -> "services"
      [] component = "C:" -> "c:"
      [] component = "HKLM" -> "hklm"
      [] component = "Software" -> "software"
      [] OTHER -> component

\* path.find("\\dir\\") != npos: dir is a component with a backslash on
\* both sides
ContainsDir(path, dir) ==
    \E i \in 2..(Len(path) - 1) : ToLower(path[i]) = dir

\* key.find("\\run") != npos: a component after the first begins with the
\* word; the components the inputs use begin with it only when they equal it
ContainsPrefix(key, word) ==
    \E i \in 2..Len(key) : ToLower(key[i]) = word

\* remote_addr.rfind(prefix, 0) == 0 for the three prefixes, or one of the
\* two literal addresses; addresses are sequences of their dotted parts
IsPrivate(remote_addr) ==
    \/ remote_addr[1] = "10"
    \/ remote_addr[1] = "192" /\ remote_addr[2] = "168"
    \/ remote_addr[1] = "172" /\ remote_addr[2] = "16"
    \/ remote_addr = <<"0", "0", "0", "0">>
    \/ remote_addr = <<"127", "0", "0", "1">>

\* std::stoi(port_it->second); remote_port is carried as the number it parses to
SuspiciousPorts == {4444, 1337, 6667, 31337}

ProcessEvent(scores, event) ==
    LET pid == event.pid
        meta == event.metadata
    IN CASE event.type = "PROCESS_CREATE" ->
              IF "image_path" \in DOMAIN meta
                 /\ (ContainsDir(meta["image_path"], "temp")
                      \/ ContainsDir(meta["image_path"], "appdata"))
              THEN AddRisk(scores, pid, "process_from_temp_or_appdata", 15)
              ELSE scores
         [] event.type \in {"FILE_CREATE", "FILE_MODIFY"} ->
              IF "file_path" \in DOMAIN meta
                 /\ (ContainsDir(meta["file_path"], "system32")
                      \/ ContainsDir(meta["file_path"], "syswow64"))
              THEN AddRisk(scores, pid, "write_to_system_directory", 15)
              ELSE scores
         [] event.type = "NETWORK_CONNECT" ->
              LET s1 == IF "remote_address" \in DOMAIN meta
                           /\ ~IsPrivate(meta["remote_address"])
                        THEN AddRisk(scores, pid, "connection_to_external_ip", 10)
                        ELSE scores
              IN IF "remote_port" \in DOMAIN meta
                    /\ meta["remote_port"] \in SuspiciousPorts
                 THEN AddRisk(s1, pid, "connection_to_suspicious_port", 15)
                 ELSE s1
         [] event.type = "REGISTRY_WRITE" ->
              IF "key_path" \in DOMAIN meta
                 /\ (ContainsPrefix(meta["key_path"], "run")
                      \/ ContainsPrefix(meta["key_path"], "services"))
              THEN AddRisk(scores, pid, "registry_persistence_modification", 20)
              ELSE scores
         [] OTHER -> scores

\* process_scores_.erase(pid)
ClearProcessScore(scores, pid) ==
    IF DOMAIN scores \ {pid} = {} THEN <<>>
    ELSE [p \in DOMAIN scores \ {pid} |-> scores[p]]

\* -------------------------------------------------------- incident manager
\* the table forgotten: only the terminal state is checked
IsValidTransition_TerminalOnly(from, to) == from # CLOSED /\ from # to

IsValidTransition(from, to) ==
    CASE from = NEW_STATE -> to = INVESTIGATING
      [] from = INVESTIGATING -> to = ACTIVE \/ to = CLOSED
      [] from = ACTIVE -> to = CONTAINED \/ to = ESCALATED \/ to = CLOSED
      [] from = ESCALATED -> to = CONTAINED \/ to = CLOSED
      [] from = CONTAINED -> to = CLOSED
      [] from = CLOSED -> FALSE
      [] OTHER -> FALSE

\* the return value of TransitionState
TransitionAccepted(w, uuid, new_state) ==
    IsValidTransition(w.incidents_[uuid].state, new_state)

\* the state change is announced before the edge is validated
TransitionState_PublishFirst(w, uuid, new_state, reason) ==
    LET incident == w.incidents_[uuid]
        transition == [from_state |-> incident.state, to_state |-> new_state,
                       timestamp |-> now, reason |-> reason]
        state_event ==
            Event("INCIDENT_STATE_CHANGE", incident.pid, "IncidentManager",
                  [incident_uuid |-> ToString(uuid),
                   from_state |-> IncidentStateToString(transition.from_state),
                   to_state |-> IncidentStateToString(new_state),
                   reason |-> reason])
        w1 == PublishAsync(w, state_event)
    IN IF ~IsValidTransition(incident.state, new_state) THEN w1
       ELSE [w1 EXCEPT !.incidents_[uuid].state_history = Append(@, transition),
                       !.incidents_[uuid].state = new_state,
                       !.incidents_[uuid].updated_at = transition.timestamp]

TransitionState(w, uuid, new_state, reason) ==
    LET incident == w.incidents_[uuid]
        transition == [from_state |-> incident.state, to_state |-> new_state,
                       timestamp |-> now, reason |-> reason]
        state_event ==
            Event("INCIDENT_STATE_CHANGE", incident.pid, "IncidentManager",
                  [incident_uuid |-> ToString(uuid),
                   from_state |-> IncidentStateToString(transition.from_state),
                   to_state |-> IncidentStateToString(new_state),
                   reason |-> reason])
    IN IF ~IsValidTransition(incident.state, new_state) THEN w
       ELSE PublishAsync(
                [w EXCEPT !.incidents_[uuid].state_history = Append(@, transition),
                          !.incidents_[uuid].state = new_state,
                          !.incidents_[uuid].updated_at = transition.timestamp],
                state_event)

\* the pid index is never consulted
FindOrCreateUuid_NoLookup(w, pid) == Len(w.incidents_) + 1

\* uuid of the incident FindOrCreateIncident returns (a fresh one when created)
FindOrCreateUuid(w, pid) ==
    LET u == w.pid_to_incident_[pid]
    IN IF u # 0 /\ u \in DOMAIN w.incidents_ /\ w.incidents_[u].state # CLOSED
       THEN u
       ELSE Len(w.incidents_) + 1

\* a new incident starts in Investigating instead of New
FindOrCreateIncident_StartsInvestigating(w, pid, process_name) ==
    LET uuid == FindOrCreateUuid(w, pid)
    IN IF uuid \in DOMAIN w.incidents_ THEN w
       ELSE [w EXCEPT !.incidents_ = Append(@,
                          [uuid |-> uuid, pid |-> pid,
                           process_name |-> process_name, state |-> INVESTIGATING,
                           associated_events |-> <<>>, risk_timeline |-> <<>>,
                           containment_actions |-> <<>>, state_history |-> <<>>,
                           created_at |-> now, updated_at |-> now]),
                      !.pid_to_incident_[pid] = uuid]

FindOrCreateIncident(w, pid, process_name) ==
    LET uuid == FindOrCreateUuid(w, pid)
    IN IF uuid \in DOMAIN w.incidents_ THEN w
       ELSE [w EXCEPT !.incidents_ = Append(@,
                          [uuid |-> uuid, pid |-> pid,
                           process_name |-> process_name, state |-> NEW_STATE,
                           associated_events |-> <<>>, risk_timeline |-> <<>>,
                           containment_actions |-> <<>>, state_history |-> <<>>,
                           created_at |-> now, updated_at |-> now]),
                      !.pid_to_incident_[pid] = uuid]

\* the index entry is ignored once its incident is closed
FindIncidentByPid_OpenOnly(w, pid) ==
    LET u == w.pid_to_incident_[pid]
    IN IF u # 0 /\ w.incidents_[u].state = CLOSED THEN 0 ELSE u

\* "" in the code is 0 here
FindIncidentByPid(w, pid) == w.pid_to_incident_[pid]

SerializedEvent(evt) ==
    [event_type |-> evt.type, timestamp |-> TimestampToISO8601(evt.timestamp),
     pid |-> evt.pid, process_name |-> evt.process_name, metadata |-> evt.metadata]

SerializedSnapshot(snap) ==
    [score |-> snap.score, level |-> RiskLevelToString(snap.level),
     timestamp |-> TimestampToISO8601(snap.timestamp)]

SerializedRecord(rec) ==
    [action |-> rec.action, success |-> rec.success,
     timestamp |-> TimestampToISO8601(rec.timestamp), details |-> rec.details]

SerializedTransition(trans) ==
    [from |-> IncidentStateToString(trans.from_state),
     to |-> IncidentStateToString(trans.to_state),
     timestamp |-> TimestampToISO8601(trans.timestamp), reason |-> trans.reason]

MapSeq(Op(_), seq) == [i \in 1..Len(seq) |-> Op(seq[i])]

\* the JSON document written for an incident
IncidentJson(incident) ==
    [uuid |-> incident.uuid, pid |-> incident.pid,
     process_name |-> incident.process_name,
     state |-> IncidentStateToString(incident.state),
     created_at |-> TimestampToISO8601(incident.created_at),
     updated_at |-> TimestampToISO8601(incident.updated_at),
     associated_events |-> MapSeq(SerializedEvent, incident.associated_events),
     risk_timeline |-> MapSeq(SerializedSnapshot, incident.risk_timeline),
     containment_actions |-> MapSeq(SerializedRecord, incident.containment_actions),
     state_history |-> MapSeq(SerializedTransition, incident.state_history)]

\* The file path is a function of created_at and uuid, both fixed at creation.
\* files keeps the incident that was written; the document in the file is
\* IncidentJson of it.
SerializeIncident(w, uuid) ==
    [w EXCEPT !.files = [u \in DOMAIN w.files \cup {uuid} |->
                            IF u = uuid THEN w.incidents_[uuid] ELSE w.files[u]]]

FileJson(uuid) == IncidentJson(files[uuid])

\* the target state is requested directly, without the intermediate steps
AdvanceByRiskLevel_NoFastTrack(w, uuid, risk_level) ==
    IF risk_level = "CRITICAL"
    THEN TransitionState(w, uuid, ESCALATED, "Risk level reached CRITICAL")
    ELSE IF risk_level = "HIGH"
    THEN TransitionState(w, uuid, ACTIVE, "Risk level reached HIGH")
    ELSE IF risk_level = "MEDIUM"
    THEN TransitionState(w, uuid, INVESTIGATING, "Risk level reached MEDIUM")
    ELSE w

\* the TransitionState calls chosen from the event's risk_level
AdvanceByRiskLevel(w, uuid, risk_level) ==
    LET state == w.incidents_[uuid].state
    IN IF risk_level = "CRITICAL" THEN
           IF state = ACTIVE
           THEN TransitionState(w, uuid, ESCALATED, "Risk level reached CRITICAL")
           ELSE IF state = NEW_STATE \/ state = INVESTIGATING
           THEN LET w1 == IF state = NEW_STATE
                          THEN TransitionState(w, uuid, INVESTIGATING,
                                               "Initial risk threshold crossing")
                          ELSE w
                    w2 == TransitionState(w1, uuid, ACTIVE, "Risk level reached HIGH+")
                IN TransitionState(w2, uuid, ESCALATED, "Risk level reached CRITICAL")
           ELSE w
       ELSE IF risk_level = "HIGH" THEN
           IF state = NEW_STATE
           THEN TransitionState(
                    TransitionState(w, uuid, INVESTIGATING,
                                    "Initial risk threshold crossing"),
                    uuid, ACTIVE, "Risk level reached HIGH")
           ELSE IF state = INVESTIGATING
           THEN TransitionState(w, uuid, ACTIVE, "Risk level reached HIGH")
           ELSE w
       ELSE IF risk_level = "MEDIUM" THEN
           IF state = NEW_STATE
           THEN TransitionState(w, uuid, INVESTIGATING, "Risk level reached MEDIUM")
           ELSE w
       ELSE w

IM_OnRiskThresholdExceeded(w, event) ==
    LET uuid == FindOrCreateUuid(w, event.pid)
        w0 == FindOrCreateIncident(w, event.pid, event.process_name)
        risk == GetProcessRiskScore(event.pid)
        w1 == [w0 EXCEPT !.incidents_[uuid].associated_events = Append(@, event),
                         !.incidents_[uuid].updated_at = now]
        w2 == IF event.pid > 0
              THEN [w1 EXCEPT !.incidents_[uuid].risk_timeline =
                        Append(@, [score |-> risk.score, level |-> risk.level,
                                   timestamp |-> now])]
              ELSE w1
        w3 == IF "risk_level" \in DOMAIN event.metadata
              THEN AdvanceByRiskLevel(w2, uuid, event.metadata["risk_level"])
              ELSE w2
    IN SerializeIncident(w3, uuid)

IM_OnContainmentAction(w, event) ==
    LET uuid == FindIncidentByPid(w, event.pid)
        record == [action |-> IF "action" \in DOMAIN event.metadata
                              THEN event.metadata["action"] ELSE "unknown",
                   details |-> IF "reason" \in DOMAIN event.metadata
                               THEN event.metadata["reason"] ELSE "",
                   success |-> TRUE, timestamp |-> now]
    IN IF uuid = 0 \/ uuid \notin DOMAIN w.incidents_ THEN w
       ELSE LET w1 == [w EXCEPT !.incidents_[uuid].containment_actions =
                                    Append(@, record),
                                !.incidents_[uuid].updated_at = now]
                w2 == IF w1.incidents_[uuid].state = ACTIVE
                         \/ w1.incidents_[uuid].state = ESCALATED
                      THEN TransitionState(w1, uuid, CONTAINED,
                                           "Containment action: " \o record.action)
                      ELSE w1
            IN SerializeIncident(w2, uuid)

\* The handlers of test_eventbus.cpp count their calls; here they append
\* their name and the event's pid to ran. A third one does the same and then
\* throws.
Recorders == {"test.count1", "test.count2"}

Record(w, by, id) == [w EXCEPT !.ran = Append(@, [by |-> by, id |-> id])]

\* The handlers of the rule engine, the correlator and the containment
\* manager, where only the fact that one ran for an event is followed.
Observed == {"RE.OnEvent", "BC.OnEvent", "CM.OnRiskThresholdExceeded"}

\* the callable registered under a handler name
Invoke(w, handler, event) ==
    CASE handler = "IM.OnRiskThresholdExceeded" -> IM_OnRiskThresholdExceeded(w, event)
      [] handler = "IM.OnContainmentAction" -> IM_OnContainmentAction(w, event)
      [] handler = "AL.OnRiskThresholdExceeded" -> AL_OnRiskThresholdExceeded(w, event)
      [] handler = "AL.OnIncidentStateChange" -> AL_OnIncidentStateChange(w, event)
      [] handler = "AL.OnContainmentAction" -> AL_OnContainmentAction(w, event)
      [] handler \in Recorders -> Record(w, handler, event.pid)
      [] handler \in Observed -> Record(w, handler, event.pid)
      [] handler = "test.raise" ->
             [Record(w, handler, event.pid) EXCEPT !.exception = TRUE]

\* for (const auto& handler : handlers_copy) handler(event); an exception
\* leaves the loop. Only the throwing test handler and Enqueue on a stopped
\* pool raise; neither occurs together with the incident manager's handlers.
RECURSIVE InvokeAll(_, _, _, _)
InvokeAll(w, handlers_copy, i, event) ==
    IF i > Len(handlers_copy) THEN w
    ELSE LET w1 == Invoke(w, handlers_copy[i], event)
         IN IF w1.exception THEN w1
            ELSE InvokeAll(w1, handlers_copy, i + 1, event)

\* the handlers registered for a kind, in registration order
HandlersFor(type) ==
    LET matching == SelectSeq(subscribers_, LAMBDA sub : sub.type = type)
    IN [i \in 1..Len(matching) |-> matching[i].handler]

Publish(w, event) == InvokeAll(w, HandlersFor(event.type), 1, event)

\* ------------------------------------------------------------ rule engine
\* std::string::npos
npos == -1

\* the first loop of WildcardMatch; indices count from 0 as in the code
RECURSIVE WildcardLoop(_, _, _, _, _, _)
WildcardLoop(pat, txt, p, t, star_idx, match_idx) ==
    IF t < Len(txt)
    THEN IF p < Len(pat) /\ (pat[p + 1] = "?" \/ pat[p + 1] = txt[t + 1])
         THEN WildcardLoop(pat, txt, p + 1, t + 1, star_idx, match_idx)
         ELSE IF p < Len(pat) /\ pat[p + 1] = "*"
         THEN WildcardLoop(pat, txt, p + 1, t, p, t)
         ELSE IF star_idx # npos
         THEN WildcardLoop(pat, txt, star_idx + 1, match_idx + 1, star_idx,
                           match_idx + 1)
         ELSE npos
    ELSE p

\* while (p < pattern.length() && pattern[p] == '*') ++p;
RECURSIVE ConsumeStars(_, _)
ConsumeStars(pat, p) ==
    IF p < Len(pat) /\ pat[p + 1] = "*" THEN ConsumeStars(pat, p + 1) ELSE p

\* npos stands for the early return false
WildcardMatch(pat, txt) ==
    LET p == WildcardLoop(pat, txt, 0, 0, npos, 0)
    IN p # npos /\ ConsumeStars(pat, p) = Len(pat)

\* ------------------------------------------------- behaviour correlator
TIMELINE_WINDOW_SECONDS == 60
DROPPER_WINDOW_SECONDS == 30
PERSISTENCE_WINDOW_SECONDS == 60
LATERAL_WINDOW_SECONDS == 10

\* threads that construct events and hand them to EventBus::Publish
Publishers == 1..MaxPublishers

\* a thread that is not inside EventBus::Publish
NoPublish == [i |-> 0]
NoEvent == [type |-> "NONE"]

\* AddEventToTimeline: push_back on the pid's deque, created when absent
AddEventToTimeline(timelines, pid, event) ==
    [p \in DOMAIN timelines \cup {pid} |->
        IF p = pid
        THEN (IF pid \in DOMAIN timelines THEN Append(timelines[pid], event)
              ELSE <<event>>)
        ELSE timelines[p]]

\* CleanupOldEvents: pop the front while it is older than the cutoff. The
\* clock counts from the epoch, so the unsigned subtraction does not wrap;
\* the model's instants are offsets from one epoch instant.
RECURSIVE CleanupOldEvents(_, _)
CleanupOldEvents(events, current_time) ==
    IF events # <<>>
       /\ Head(events).timestamp < current_time - TIMELINE_WINDOW_SECONDS * 1000
    THEN CleanupOldEvents(Tail(events), current_time)
    ELSE events

\* the loop over k of DetectDropperPattern; indices count from 1
RECURSIVE DropperLoopK(_, _, _, _)
DropperLoopK(events, i, k, window_ms) ==
    IF k > Len(events) THEN FALSE
    ELSE IF events[k].timestamp > events[i].timestamp + window_ms THEN FALSE
    ELSE IF events[k].type = "NETWORK_CONNECT" THEN TRUE
    ELSE DropperLoopK(events, i, k + 1, window_ms)

\* the loop over j of DetectDropperPattern
RECURSIVE DropperLoopJ(_, _, _, _)
DropperLoopJ(events, i, j, window_ms) ==
    IF j > Len(events) THEN FALSE
    ELSE IF events[j].timestamp > events[i].timestamp + window_ms THEN FALSE
    ELSE IF events[j].type = "PROCESS_CREATE"
            /\ DropperLoopK(events, i, j + 1, window_ms)
    THEN TRUE
    ELSE DropperLoopJ(events, i, j + 1, window_ms)

\* the outer loop of DetectDropperPattern
RECURSIVE DropperLoopI(_, _, _)
DropperLoopI(events, i, window_ms) ==
    IF i > Len(events) THEN FALSE
    ELSE IF /\ events[i].type = "FILE_CREATE"
            /\ "file_path" \in DOMAIN events[i].metadata
            /\ (ContainsDir(events[i].metadata["file_path"], "temp")
                 \/ ContainsDir(events[i].metadata["file_path"], "appdata"))
            /\ DropperLoopJ(events, i, i + 1, window_ms)
    THEN TRUE
    ELSE DropperLoopI(events, i + 1, window_ms)

\* only an occurrence the newest event completes is reported
DetectDropperPattern_NewestOnly(events) ==
    IF Len(events) < 3 THEN FALSE
    ELSE /\ events[Len(events)].type = "NETWORK_CONNECT"
         /\ DropperLoopI(events, 1, DROPPER_WINDOW_SECONDS * 1000)

DetectDropperPattern(events) ==
    IF Len(events) < 3 THEN FALSE
    ELSE DropperLoopI(events, 1, DROPPER_WINDOW_SECONDS * 1000)

\* the loop over j of DetectPersistencePattern
RECURSIVE PersistenceLoopJ(_, _, _, _)
PersistenceLoopJ(events, i, j, window_ms) ==
    IF j > Len(events) THEN FALSE
    ELSE IF events[j].timestamp > events[i].timestamp + window_ms THEN FALSE
    ELSE IF events[j].type = "PROCESS_CREATE" THEN TRUE
    ELSE PersistenceLoopJ(events, i, j + 1, window_ms)

\* the outer loop of DetectPersistencePattern
RECURSIVE PersistenceLoopI(_, _, _)
PersistenceLoopI(events, i, window_ms) ==
    IF i > Len(events) THEN FALSE
    ELSE IF /\ events[i].type = "REGISTRY_WRITE"
            /\ "key_path" \in DOMAIN events[i].metadata
            /\ (ContainsPrefix(events[i].metadata["key_path"], "run")
                 \/ ContainsPrefix(events[i].metadata["key_path"], "runonce")
                 \/ ContainsPrefix(events[i].metadata["key_path"], "services"))
            /\ PersistenceLoopJ(events, i, i + 1, window_ms)
    THEN TRUE
    ELSE PersistenceLoopI(events, i + 1, window_ms)

DetectPersistencePattern(events) ==
    IF Len(events) < 2 THEN FALSE
    ELSE PersistenceLoopI(events, 1, PERSISTENCE_WINDOW_SECONDS * 1000)

SmbPorts == {445, 135, 139}

\* smb_connections: <<timestamp, remote_address>> of the NETWORK_CONNECT
\* events that carry both keys and one of the three ports, in timeline order
RECURSIVE SmbConnections(_, _)
SmbConnections(events, n) ==
    IF n > Len(events) THEN <<>>
    ELSE IF /\ events[n].type = "NETWORK_CONNECT"
            /\ "remote_port" \in DOMAIN events[n].metadata
            /\ "remote_address" \in DOMAIN events[n].metadata
            /\ events[n].metadata["remote_port"] \in SmbPorts
    THEN <<<<events[n].timestamp, events[n].metadata["remote_address"]>>>>
         \o SmbConnections(events, n + 1)
    ELSE SmbConnections(events, n + 1)

\* the loop over j of DetectLateralMovementPattern with the addresses
\* inserted so far
RECURSIVE LateralLoopJ(_, _, _, _, _)
LateralLoopJ(smb_connections, start_time, j, unique_ips, window_ms) ==
    IF j > Len(smb_connections) THEN FALSE
    ELSE IF smb_connections[j][1] > start_time + window_ms THEN FALSE
    ELSE LET ips == unique_ips \cup {smb_connections[j][2]}
         IN IF Cardinality(ips) >= 3 THEN TRUE
            ELSE LateralLoopJ(smb_connections, start_time, j + 1, ips, window_ms)

\* the loop over i < size - 2 of DetectLateralMovementPattern
RECURSIVE LateralLoopI(_, _, _)
LateralLoopI(smb_connections, i, window_ms) ==
    IF i > Len(smb_connections) - 2 THEN FALSE
    ELSE IF LateralLoopJ(smb_connections, smb_connections[i][1], i, {}, window_ms)
    THEN TRUE
    ELSE LateralLoopI(smb_connections, i + 1, window_ms)

DetectLateralMovementPattern(events) ==
    IF Len(events) < 3 THEN FALSE
    ELSE LET smb_connections == SmbConnections(events, 1)
         IN IF Len(smb_connections) >= 3
            THEN LateralLoopI(smb_connections, 1, LATERAL_WINDOW_SECONDS * 1000)
            ELSE FALSE

\* the three detectors in the order OnEvent calls them: the names of the
\* patterns that EmitPatternDetection is called for
DetectedPatterns(events) ==
    (IF DetectDropperPattern(events) THEN <<"Dropper">> ELSE <<>>)
    \o (IF DetectPersistencePattern(events) THEN <<"Persistence">> ELSE <<>>)
    \o (IF DetectLateralMovementPattern(events) THEN <<"Lateral_Movement">> ELSE <<>>)

\* the event EmitPatternDetection constructs
PatternEvent(pid, pattern_name) ==
    Event("INCIDENT_STATE_CHANGE", pid, "BehaviorCorrelator",
          [pattern_name |-> pattern_name, description |-> "detected",
           bonus_score |-> IF pattern_name = "Lateral_Movement" THEN "25" ELSE "20",
           state |-> "ACTIVE"])

\* EmitPatternDetection for each detected pattern in turn
RECURSIVE EmitAll(_, _, _, _)
EmitAll(w, pid, names, n) ==
    IF n > Len(names) \/ w.exception THEN w
    ELSE EmitAll(PublishAsync(w, PatternEvent(pid, names[n])), pid, names, n + 1)

\* BehaviorCorrelator::OnEvent: the timelines it leaves behind
TimelinesAfter(timelines, event, current_time) ==
    IF event.type = "PROCESS_TERMINATE"
    THEN [p \in DOMAIN timelines \ {event.pid} |-> timelines[p]]
    ELSE IF event.pid # 0
    THEN LET added == AddEventToTimeline(timelines, event.pid, event)
         IN [added EXCEPT ![event.pid] = CleanupOldEvents(@, current_time)]
    ELSE timelines

\* BehaviorCorrelator::OnEvent: has_timeline
HasTimeline(event) == event.type # "PROCESS_TERMINATE" /\ event.pid # 0

\* ------------------------------------------------------- incident store
\* std::nullopt
NoIncident == [uuid |-> 0]

RowEvent(evt) ==
    [event_type |-> evt.type, timestamp |-> TimestampToISO8601(evt.timestamp),
     pid |-> evt.pid, process_name |-> evt.process_name, metadata |-> evt.metadata]

RowSnapshot(snap) ==
    [score |-> snap.score, level |-> RiskLevelToString(snap.level),
     timestamp |-> TimestampToISO8601(snap.timestamp)]

RowRecord(rec) ==
    [action |-> rec.action, success |-> rec.success,
     timestamp |-> TimestampToISO8601(rec.timestamp), details |-> rec.details]

RowTransition(trans) ==
    [from |-> IncidentStateToString(trans.from_state),
     to |-> IncidentStateToString(trans.to_state),
     timestamp |-> TimestampToISO8601(trans.timestamp), reason |-> trans.reason]

\* DatabaseManager::UpsertIncident: the ten columns bound to the statement;
\* the four arrays are the JSON documents that dump() writes
IncidentRow(incident) ==
    [uuid |-> incident.uuid, pid |-> incident.pid,
     process_name |-> incident.process_name,
     state |-> IncidentStateToString(incident.state),
     created_at |-> TimestampToISO8601(incident.created_at),
     updated_at |-> TimestampToISO8601(incident.updated_at),
     associated_events |-> MapSeq(RowEvent, incident.associated_events),
     risk_timeline |-> MapSeq(RowSnapshot, incident.risk_timeline),
     containment_actions |-> MapSeq(RowRecord, incident.containment_actions),
     state_history |-> MapSeq(RowTransition, incident.state_history)]

StringToIncidentState(s) ==
    CASE s = "NEW" -> NEW_STATE
      [] s = "INVESTIGATING" -> INVESTIGATING
      [] s = "ACTIVE" -> ACTIVE
      [] s = "CONTAINED" -> CONTAINED
      [] s = "CLOSED" -> CLOSED
      [] s = "ESCALATED" -> ESCALATED
      [] OTHER -> NEW_STATE

StringToRiskLevel(s) ==
    CASE s = "MEDIUM" -> MEDIUM
      [] s = "HIGH" -> HIGH
      [] s = "CRITICAL" -> CRITICAL
      [] OTHER -> LOW

EventTypes ==
    {"PROCESS_CREATE", "PROCESS_TERMINATE", "FILE_CREATE", "FILE_MODIFY",
     "FILE_DELETE", "NETWORK_CONNECT", "NETWORK_DISCONNECT", "REGISTRY_WRITE",
     "RISK_THRESHOLD_EXCEEDED", "INCIDENT_STATE_CHANGE", "CONTAINMENT_ACTION"}

StringToEventType(s) == IF s \in EventTypes THEN s ELSE "PROCESS_CREATE"

\* Event evt(type, pid, process_name): the constructor stamps the event with
\* the clock's reading at the time of the load; the stored timestamp is not read
EventFromRow(ej, current_time) ==
    [type |-> StringToEventType(ej.event_type), timestamp |-> current_time,
     pid |-> ej.pid, process_name |-> ej.process_name, metadata |-> ej.metadata]

\* snap.timestamp = 0
SnapshotFromRow(rj) ==
    [score |-> rj.score, level |-> StringToRiskLevel(rj.level), timestamp |-> 0]

\* rec.timestamp = 0
RecordFromRow(aj) ==
    [action |-> aj.action, success |-> aj.success, timestamp |-> 0,
     details |-> aj.details]

\* trans.timestamp = 0
TransitionFromRow(hj) ==
    [from_state |-> StringToIncidentState(hj.from),
     to_state |-> StringToIncidentState(hj.to), timestamp |-> 0,
     reason |-> hj.reason]

\* DeserializeIncidentFromRow: created_at and updated_at are set to 0
DeserializeIncidentFromRow(row, current_time) ==
    [uuid |-> row.uuid, pid |-> row.pid, process_name |-> row.process_name,
     state |-> StringToIncidentState(row.state),
     associated_events |->
         MapSeq(LAMBDA ej : EventFromRow(ej, current_time), row.associated_events),
     risk_timeline |-> MapSeq(SnapshotFromRow, row.risk_timeline),
     containment_actions |-> MapSeq(RecordFromRow, row.containment_actions),
     state_history |-> MapSeq(TransitionFromRow, row.state_history),
     created_at |-> 0, updated_at |-> 0]

\* ------------------------------------------------------ threads and locks
\* the mutexes of the pipeline: EventBus::mutex_, ThreadPool::queue_mutex_ and
\* the mutex_ of each subsystem
Mutexes ==
    {"bus", "queue", "rule_engine", "scorer", "correlator", "containment",
     "incident", "audit", "store"}

\* the pool's workers, a collector's monitor thread and the operator's thread
CollectorThread == NumWorkers + 1
OperatorThread == NumWorkers + 2
Threads == Workers \cup {CollectorThread, OperatorThread}

Lock(l) == [op |-> "lock", arg |-> l]
Unlock(l) == [op |-> "unlock", arg |-> l]
DoPublish(kind) == [op |-> "publish", arg |-> kind]
DoPublishAsync(kind) == [op |-> "publish_async", arg |-> kind]
Call(handler) == [op |-> "call", arg |-> handler]
Push(kind) == [op |-> "push", arg |-> kind]
Pop == [op |-> "pop", arg |-> ""]

\* the subscriptions if the incident manager also listened to the state
\* changes it publishes itself
Subscribed_ManagerHearsItself(kind) ==
    CASE kind = "FILE_CREATE" -> <<"EDR.OnEvent", "RE.OnEvent", "BC.OnEvent">>
      [] kind = "RISK_THRESHOLD_EXCEEDED" ->
             <<"CM.OnRiskThresholdExceeded", "IM.OnRiskThresholdExceeded",
               "AL.OnRiskThresholdExceeded">>
      [] kind = "CONTAINMENT_ACTION" ->
             <<"IM.OnContainmentAction", "AL.OnContainmentAction">>
      [] kind = "INCIDENT_STATE_CHANGE" ->
             <<"IM.OnContainmentAction", "AL.OnIncidentStateChange">>
      [] OTHER -> <<>>

\* the handlers of each kind in the order main.cpp subscribes them:
\* CortexEDR::Initialize, then the Start calls of CortexEDR::Start
Subscribed(kind) ==
    CASE kind = "FILE_CREATE" -> <<"EDR.OnEvent", "RE.OnEvent", "BC.OnEvent">>
      [] kind = "RISK_THRESHOLD_EXCEEDED" ->
             <<"CM.OnRiskThresholdExceeded", "IM.OnRiskThresholdExceeded",
               "AL.OnRiskThresholdExceeded">>
      [] kind = "CONTAINMENT_ACTION" ->
             <<"IM.OnContainmentAction", "AL.OnContainmentAction">>
      [] kind = "INCIDENT_STATE_CHANGE" -> <<"AL.OnIncidentStateChange">>
      [] OTHER -> <<>>

\* IncidentManager::TransitionState as often as one handler calls it
RECURSIVE Transitions(_)
Transitions(n) ==
    IF n = 0 THEN <<>>
    ELSE <<DoPublishAsync("INCIDENT_STATE_CHANGE")>> \o Transitions(n - 1)

\* AuditLogger::LogAction: its mutex around DatabaseManager::InsertAuditEntry
LogActionSteps == <<Lock("audit"), Lock("store"), Unlock("store"), Unlock("audit")>>

\* what a handler does with mutexes and the bus; the alternatives are the
\* branches its event can take it through
HandlerSteps(handler) ==
    CASE handler = "EDR.OnEvent" ->
             {<<Lock("scorer"), Unlock("scorer"), Lock("scorer"), Unlock("scorer")>>}
      [] handler = "RE.OnEvent" ->
             {<<Lock("rule_engine"), Unlock("rule_engine")>>,
              <<Lock("rule_engine"), DoPublishAsync("RISK_THRESHOLD_EXCEEDED"),
                Unlock("rule_engine")>>}
      [] handler = "BC.OnEvent" ->
             {<<Lock("correlator"), Unlock("correlator")>>,
              <<Lock("correlator"), Unlock("correlator"),
                DoPublishAsync("INCIDENT_STATE_CHANGE")>>}
      [] handler = "CM.OnRiskThresholdExceeded" ->
             {<<Lock("containment"), Unlock("containment")>>,
              <<Lock("containment"), DoPublishAsync("CONTAINMENT_ACTION"),
                Unlock("containment")>>}
      [] handler = "IM.OnRiskThresholdExceeded" ->
             {<<Lock("incident"), Lock("scorer"), Unlock("scorer")>>
              \o Transitions(n) \o <<Unlock("incident")>> : n \in 0..2}
      [] handler = "IM.OnContainmentAction" ->
             {<<Lock("incident")>> \o Transitions(n) \o <<Unlock("incident")>> :
                 n \in 0..1}
      [] OTHER -> {LogActionSteps}

\* EventBus::Publish: the copy under the bus mutex, then the handlers
PublishSteps(kind) ==
    <<Lock("bus"), Unlock("bus")>>
    \o [n \in 1..Len(Subscribed(kind)) |-> Call(Subscribed(kind)[n])]

\* EventBus::PublishAsync: ThreadPool::Enqueue, or Publish on this thread
PublishAsyncSteps(kind) ==
    IF async_pool_ THEN <<Lock("queue"), Push(kind), Unlock("queue")>>
    ELSE <<DoPublish(kind)>>

\* the mutexes a thread owns
HeldBy(t) == {l \in Mutexes : holder[l] = t}

\* no SharedStatus: nothing mapped yet
NoStatus == [magic |-> -1]

\* std::nullopt
nullopt == [has_value |-> FALSE]

\* no Update or Read in progress
NoCopy == [status |-> NoStatus, todo |-> {}]

\* no LoadRules call in progress
NoLoad == [nodes |-> <<>>, next |-> 0]

\* the analysers that subscribe to the bus
Analysers == {"RE", "BC", "CM", "IM", "AL"}

\* ------------------------------------------------------------------- Init
Init ==
    /\ now = 0
    /\ subscribers_ = <<>>
    /\ next_id_ = 1
    /\ async_pool_ = FALSE
    /\ tasks_ = <<>>
    /\ worker_task = [k \in Workers |-> NoTask]
    /\ im_running = FALSE
    /\ risk_sub_id_ = 0
    /\ containment_sub_id_ = 0
    /\ incidents_ = <<>>
    /\ pid_to_incident_ = [p \in Pids |-> 0]
    /\ files = <<>>
    /\ state_changes_published = 0
    /\ process_scores_ = <<>>
    /\ threshold_low_ = 30
    /\ threshold_medium_ = 60
    /\ threshold_high_ = 80
    /\ threshold_critical_ = 100
    /\ set_thresholds = [pc |-> 0, args |-> <<30, 60, 80, 100>>]
    /\ scorer_last = [type |-> "NONE", pid |-> 0]
    /\ al_running = FALSE
    /\ al_subs = <<>>
    /\ database_ = FALSE
    /\ last_hash_ = ""
    /\ entry_count_ = 0
    /\ audit_log = <<>>
    /\ audit_seq = 0
    /\ db_ok = TRUE
    /\ write_failed = FALSE
    /\ tampered = 0
    /\ restarted = FALSE
    /\ last_result = "none"
    /\ stop_ = FALSE
    /\ workers_ = {}
    /\ worker_exited = [k \in Workers |-> FALSE]
    /\ shutdown_pc = "idle"
    /\ shutdown_returns = 0
    /\ ran = <<>>
    /\ publish_log = <<>>
    /\ pattern = <<>>
    /\ text = <<>>
    /\ wildcard_result = WildcardMatch(<<>>, <<>>)
    /\ pending = [th \in Publishers |-> NoEvent]
    /\ process_timelines_ = <<>>
    /\ detected = <<>>
    /\ incident_rows = <<>>
    /\ upserted = <<>>
    /\ loaded = NoIncident
    /\ publishing = [th \in Publishers |-> NoPublish]
    /\ unsubscribe_returned = {}
    /\ late_invocations = {}
    /\ holder = [l \in Mutexes |-> 0]
    /\ stack = [t \in Threads |-> <<>>]
    /\ issued = 0
    /\ invoked_under = {}
    /\ engine_pc = "constructed"
    /\ containments_published = 0
    /\ re_running = FALSE
    /\ re_subscription_id_ = 0
    /\ bc_running = FALSE
    /\ bc_subscription_ids_ = <<>>
    /\ cm_running = FALSE
    /\ cm_subscription_id_ = 0
    /\ stops = [a \in Analysers |-> 0]
    /\ al_pc = "idle"
    /\ shm = NoStatus
    /\ update = NoCopy
    /\ read = NoCopy
    /\ read_result = nullopt
    /\ updates = {}
    /\ mutex_ = 0
    /\ bc_pc = [th \in Publishers |-> 0]
    /\ timeline_copy = [th \in Publishers |-> <<>>]
    /\ has_timeline = [th \in Publishers |-> FALSE]
    /\ rules_ = <<>>
    /\ re_mutex_ = "none"
    /\ load = NoLoad
    /\ load_result = "none"
    /\ loads = 0
    /\ in_place = <<>>
    /\ evaluated = {}
    /\ original = <<>>
    /\ removed = 0

\* ----------------------------------------------------------- state bounds
RECURSIVE SumLen(_, _, _)
SumLen(incidents, field, i) ==
    IF i > Len(incidents) THEN 0
    ELSE Len(incidents[i][field]) + SumLen(incidents, field, i + 1)

Bounded(w) ==
    /\ SumLen(w.incidents_, "associated_events", 1) <= MaxEvents
    /\ SumLen(w.incidents_, "containment_actions", 1) <= MaxActions
    /\ Len(w.tasks_) <= MaxTasks
    /\ w.entry_count_ <= MaxAudit

\* how many of the events handed to PublishAsync came from TransitionState
FromManager(published) ==
    Cardinality({i \in DOMAIN published :
                    published[i].process_name = "IncidentManager"})

\* the variables a publish can change take their values from w
Commit(w) ==
    /\ Bounded(w)
    /\ incidents_' = w.incidents_
    /\ pid_to_incident_' = w.pid_to_incident_
    /\ files' = w.files
    /\ state_changes_published' = state_changes_published + FromManager(w.published)
    /\ tasks_' = w.tasks_
    /\ audit_log' = w.audit_log
    /\ audit_seq' = w.audit_seq
    /\ last_hash_' = w.last_hash_
    /\ entry_count_' = w.entry_count_
    /\ write_failed' = w.write_failed
    /\ ran' = w.ran

\* ---------------------------------------------------------------- actions
Tick ==
    /\ now < MaxTime
    /\ now' = now + 1
    /\ last_result' = "none"
    /\ UNCHANGED <<busVars, imVars, alVars, dbVars, scorerVars,
                   poolVars, publish_log, ran, engineVars>>

\* ThreadPool::ThreadPool(num_threads): the workers start waiting
ThreadPoolCreated ==
    /\ stop_' = FALSE
    /\ workers_' = Workers
    /\ worker_exited' = [k \in Workers |-> FALSE]
    /\ tasks_' = <<>>
    /\ worker_task' = [k \in Workers |-> NoTask]

InitAsyncPool ==
    /\ ~async_pool_
    /\ async_pool_' = TRUE
    /\ ThreadPoolCreated
    /\ last_result' = "none"
    /\ UNCHANGED <<now, subscribers_, next_id_, imVars, alVars, dbVars,
                   scorerVars, shutdown_pc, shutdown_returns, publish_log, ran, engineVars>>

Subscription(id, type, handler) == [id |-> id, type |-> type, handler |-> handler]

IM_Start ==
    /\ ~im_running
    /\ subscribers_' = subscribers_
          \o <<Subscription(next_id_, "RISK_THRESHOLD_EXCEEDED",
                            "IM.OnRiskThresholdExceeded"),
               Subscription(next_id_ + 1, "CONTAINMENT_ACTION",
                            "IM.OnContainmentAction")>>
    /\ risk_sub_id_' = next_id_
    /\ containment_sub_id_' = next_id_ + 1
    /\ next_id_' = next_id_ + 2
    /\ im_running' = TRUE
    /\ last_result' = "none"
    /\ UNCHANGED <<now, async_pool_, tasks_, worker_task, incidents_,
                   pid_to_incident_, files, state_changes_published, alVars,
                   dbVars, scorerVars,
                   poolVars, publish_log, ran, engineVars>>

\* the stored chain is not read back
InitialTip_AlwaysGenesis(rows) == GENESIS

\* the tip read back from the store: the newest row's entry_hash, if any
InitialTip(rows) == IF rows # <<>> THEN rows[Len(rows)].entry_hash ELSE GENESIS

AL_Initialize ==
    /\ database_' = TRUE
    /\ last_hash_' = InitialTip(audit_log)
    /\ entry_count_' = IF audit_log # <<>> THEN Len(audit_log) ELSE entry_count_
    /\ restarted' = (restarted \/ audit_log # <<>>)
    /\ last_result' = "none"
    /\ UNCHANGED <<now, busVars, imVars, al_running, al_subs, audit_log,
                   audit_seq, db_ok, write_failed, tampered, scorerVars,
                   poolVars, publish_log, ran, engineVars>>

AL_Start ==
    /\ ~al_running
    /\ al_running' = TRUE
    /\ subscribers_' = subscribers_
          \o <<Subscription(next_id_, "RISK_THRESHOLD_EXCEEDED",
                            "AL.OnRiskThresholdExceeded"),
               Subscription(next_id_ + 1, "INCIDENT_STATE_CHANGE",
                            "AL.OnIncidentStateChange"),
               Subscription(next_id_ + 2, "CONTAINMENT_ACTION",
                            "AL.OnContainmentAction")>>
    /\ al_subs' = al_subs \o <<next_id_, next_id_ + 1, next_id_ + 2>>
    /\ next_id_' = next_id_ + 3
    /\ Commit(LogAction(World, "AUDIT_STARTED", "system", "audit_logger",
                        "Audit logging system started"))
    /\ last_result' = "none"
    /\ UNCHANGED <<now, async_pool_, worker_task, im_running, risk_sub_id_,
                   containment_sub_id_, database_, db_ok, tampered, restarted,
                   scorerVars,
                   poolVars, publish_log, engineVars>>

\* ------------------------------------------------- publishing and delivery
\* a producer hands an event to the bus, with Publish or with PublishAsync
BusPublish(event, async) ==
    LET w == IF async THEN PublishAsync(World, event) ELSE Publish(World, event)
    IN /\ Commit(w)
       /\ last_result' = "none"
       /\ UNCHANGED <<now, subscribers_, next_id_, async_pool_, worker_task,
                      im_running, risk_sub_id_, containment_sub_id_, al_running,
                      al_subs, database_, db_ok, tampered, restarted,
                      scorerVars,
                   poolVars, publish_log, engineVars>>

RiskLevels == {"NONE", "MEDIUM", "HIGH", "CRITICAL"}

RiskMeta(level) == IF level = "NONE" THEN NoMeta ELSE [risk_level |-> level]

PublishRisk(pid, level, async) ==
    BusPublish(Event("RISK_THRESHOLD_EXCEEDED", pid, "proc", RiskMeta(level)), async)

PublishContainment(pid, async) ==
    BusPublish(Event("CONTAINMENT_ACTION", pid, "ContainmentManager",
                     [action |-> "process_suspend", reason |-> "high_risk_level"]),
               async)

\* BehaviorCorrelator::EmitPatternDetection for a detected pattern
EmitPatternDetection(pid, pattern_name) ==
    BusPublish(Event("INCIDENT_STATE_CHANGE", pid, "BehaviorCorrelator",
                     [pattern_name |-> pattern_name, description |-> "detected",
                      bonus_score |-> "20", state |-> "ACTIVE"]),
               TRUE)

\* ThreadPool::WorkerThread: pop the front task under the queue mutex
WorkerPop(k) ==
    /\ k \in workers_
    /\ ~worker_exited[k]
    /\ worker_task[k] = NoTask
    /\ tasks_ # <<>>
    /\ worker_task' = [worker_task EXCEPT ![k] = Head(tasks_)]
    /\ tasks_' = Tail(tasks_)
    /\ last_result' = "none"
    /\ UNCHANGED <<now, subscribers_, next_id_, async_pool_, imVars, alVars,
                   dbVars, scorerVars,
                   poolVars, publish_log, ran, engineVars>>

\* the callable a queued task wraps: Publish(event) for the bus, a counting
\* lambda for a pool used on its own
RunTask(w, task) ==
    IF task.type = "TASK" THEN Record(w, "task", task.id) ELSE Publish(w, task)

\* ThreadPool::WorkerThread: run the popped task. The task is a
\* std::packaged_task: what it throws is stored in its future and the worker
\* goes on.
WorkerRun(k) ==
    /\ worker_task[k] # NoTask
    /\ LET task == worker_task[k]
           w == RunTask(World, task)
       IN /\ Commit(w)
          /\ last_result' = "none"
    /\ worker_task' = [worker_task EXCEPT ![k] = NoTask]
    /\ UNCHANGED <<now, subscribers_, next_id_, async_pool_, im_running,
                   risk_sub_id_, containment_sub_id_, al_running, al_subs,
                   database_, db_ok, tampered, restarted, scorerVars,
                   poolVars, publish_log, engineVars>>

\* ------------------------------------------------------ operator commands
\* every known uuid and one unknown
Uuids == 1..(Len(incidents_) + 1)

\* ContainIncident / CloseIncident / EscalateIncident share one shape
OperatorTransition(uuid, new_state, reason) ==
    LET found == uuid \in DOMAIN incidents_
        w == IF found THEN TransitionState(World, uuid, new_state, reason) ELSE World
    IN /\ Commit(w)
       /\ last_result' = IF found /\ TransitionAccepted(World, uuid, new_state)
                         THEN "none" ELSE "rejected"
       /\ UNCHANGED <<now, subscribers_, next_id_, async_pool_, worker_task,
                      im_running, risk_sub_id_, containment_sub_id_, al_running,
                      al_subs, database_, db_ok, tampered, restarted,
                      scorerVars,
                   poolVars, publish_log, engineVars>>

ContainIncident(uuid) ==
    OperatorTransition(uuid, CONTAINED, "Manual containment via CLI")

CloseIncident(uuid) ==
    OperatorTransition(uuid, CLOSED, "Manual close via CLI")

EscalateIncident(uuid) ==
    OperatorTransition(uuid, ESCALATED, "Manual escalation via CLI")

\* revert is not implemented: it reports failure and changes nothing
RevertIncident(uuid) ==
    /\ last_result' = "not_implemented"
    /\ UNCHANGED <<now, busVars, imVars, alVars, dbVars, scorerVars,
                   poolVars, publish_log, ran, engineVars>>

\* ------------------------------------------------------------ specification
\* the incident manager driven through the bus and by operator commands
Next ==
    \/ IM_Start
    \/ \E pid \in Pids, level \in RiskLevels : PublishRisk(pid, level, FALSE)
    \/ \E pid \in Pids : PublishContainment(pid, FALSE)
    \/ \E uuid \in Uuids : ContainIncident(uuid)
    \/ \E uuid \in Uuids : CloseIncident(uuid)
    \/ \E uuid \in Uuids : EscalateIncident(uuid)
    \/ \E uuid \in Uuids : RevertIncident(uuid)

Spec == Init /\ [][Next]_vars

\* operator commands with the audit logger subscribed, for one pid
NextOperator ==
    \/ IM_Start
    \/ AL_Initialize
    \/ AL_Start
    \/ \E level \in RiskLevels : PublishRisk(1, level, FALSE)
    \/ \E uuid \in Uuids : ContainIncident(uuid)
    \/ \E uuid \in Uuids : CloseIncident(uuid)
    \/ \E uuid \in Uuids : EscalateIncident(uuid)
    \/ \E uuid \in Uuids : RevertIncident(uuid)

SpecOperator == Init /\ [][NextOperator]_vars

\* the incident manager with a running clock, for one pid: every handler reads
\* the millisecond clock within one reading of it
NextTimed ==
    \/ Tick
    \/ IM_Start
    \/ \E level \in RiskLevels : PublishRisk(1, level, FALSE)
    \/ \E uuid \in Uuids : ContainIncident(uuid)
    \/ \E uuid \in Uuids : CloseIncident(uuid)

SpecTimed == Init /\ [][NextTimed]_vars

\* ------------------------------------------------- the audit chain alone
\* action names a caller passes
Actions == {"A", "B"}

\* a direct call of AuditLogger::LogAction
LogActionCall(action) ==
    /\ entry_count_ < MaxChain
    /\ Commit(LogAction(World, action, "operator", "t", ""))
    /\ last_result' = "none"
    /\ UNCHANGED <<now, subscribers_, next_id_, async_pool_, worker_task,
                   im_running, risk_sub_id_, containment_sub_id_, al_running,
                   al_subs, database_, db_ok, tampered, restarted,
                   scorerVars,
                   poolVars, publish_log, engineVars>>

\* the store starts or stops failing row inserts
StoreToggle ==
    /\ db_ok' = ~db_ok
    /\ last_result' = "none"
    /\ UNCHANGED <<now, busVars, imVars, alVars, audit_log, audit_seq,
                   write_failed, tampered, restarted, scorerVars,
                   poolVars, publish_log, ran, engineVars>>

AuditFields == {"timestamp", "action", "actor", "target", "details",
                "prev_hash", "entry_hash"}

HashFields == {"prev_hash", "entry_hash"}

\* the values an alteration may write into a field
TamperValues(field) ==
    IF field \in HashFields
    THEN {"X", GENESIS} \cup {audit_log[i].entry_hash : i \in DOMAIN audit_log}
    ELSE {"X", "A"}

\* a raw store update of one field of one row, done once
Tamper(i, field, value) ==
    /\ tampered = 0
    /\ VerifyIntegrity.ok
    /\ i \in DOMAIN audit_log
    /\ audit_log[i][field] # value
    /\ audit_log' = [audit_log EXCEPT ![i][field] = value]
    /\ tampered' = audit_log[i].sequence_id
    /\ last_result' = "none"
    /\ UNCHANGED <<now, busVars, imVars, alVars, audit_seq, db_ok,
                   write_failed, restarted, scorerVars,
                   poolVars, publish_log, ran, engineVars>>

NextAudit ==
    \/ Tick
    \/ AL_Initialize
    \/ StoreToggle
    \/ \E action \in Actions : LogActionCall(action)
    \/ \E i \in 1..MaxChain, field \in AuditFields :
          \E value \in TamperValues(field) : Tamper(i, field, value)

SpecAudit == Init /\ [][NextAudit]_vars

\* ------------------------------------------- delivery through the pool
\* the production wiring: events of one pid are queued and run by the workers
NextAsync ==
    \/ InitAsyncPool
    \/ IM_Start
    \/ \E level \in {"HIGH", "CRITICAL"} : PublishRisk(1, level, TRUE)
    \/ EmitPatternDetection(1, "Dropper")
    \/ \E k \in Workers : WorkerPop(k)
    \/ \E k \in Workers : WorkerRun(k)

SpecAsync == Init /\ [][NextAsync]_vars

\* ------------------------------------------ the bus with test handlers
TestKinds == {"PROCESS_CREATE", "FILE_CREATE"}

TestHandlers == Recorders \cup {"test.raise"}

\* EventBus::Subscribe; each test handler is registered once
Subscribe(type, handler) ==
    /\ next_id_ <= MaxSubs
    /\ \A i \in DOMAIN subscribers_ : subscribers_[i].handler # handler
    /\ subscribers_' = Append(subscribers_, Subscription(next_id_, type, handler))
    /\ next_id_' = next_id_ + 1
    /\ last_result' = "none"
    /\ UNCHANGED <<now, async_pool_, tasks_, worker_task, imVars, alVars, dbVars,
                   scorerVars, poolVars, publish_log, ran, engineVars>>

\* how a call was served: on the caller's thread, queued, or refused
PublishMode(async) ==
    IF ~async THEN "sync"
    ELSE IF ~async_pool_ THEN "async_inline"
    ELSE IF stop_ THEN "async_refused"
    ELSE "async_queued"

\* the test publisher's n-th event carries n as its pid
TestPublish(type, async) ==
    LET id == Len(publish_log) + 1
        event == Event(type, id, "test.exe", NoMeta)
        w == IF async THEN PublishAsync(World, event) ELSE Publish(World, event)
    IN /\ id <= MaxPublished
       /\ Commit(w)
       /\ last_result' = IF w.exception THEN "exception" ELSE "returned"
       /\ publish_log' = Append(publish_log,
                                [id |-> id, type |-> type, mode |-> PublishMode(async),
                                 subs |-> HandlersFor(type),
                                 epoch |-> shutdown_returns,
                                 overlaps |-> shutdown_pc = "joining"])
       /\ UNCHANGED <<now, subscribers_, next_id_, async_pool_, worker_task,
                      im_running, risk_sub_id_, containment_sub_id_, al_running,
                      al_subs, database_, db_ok, tampered, restarted,
                      scorerVars, poolVars, engineVars>>

\* ThreadPool::WorkerThread: if (stop_ && tasks_.empty()) return;
WorkerExit_IgnoresQueue(k) ==
    /\ k \in workers_
    /\ ~worker_exited[k]
    /\ worker_task[k] = NoTask
    /\ stop_
    /\ worker_exited' = [worker_exited EXCEPT ![k] = TRUE]
    /\ last_result' = "none"
    /\ UNCHANGED <<now, busVars, imVars, alVars, dbVars, scorerVars, stop_,
                   workers_, shutdown_pc, shutdown_returns, publish_log, ran, engineVars>>

WorkerExit(k) ==
    /\ k \in workers_
    /\ ~worker_exited[k]
    /\ worker_task[k] = NoTask
    /\ stop_
    /\ tasks_ = <<>>
    /\ worker_exited' = [worker_exited EXCEPT ![k] = TRUE]
    /\ last_result' = "none"
    /\ UNCHANGED <<now, busVars, imVars, alVars, dbVars, scorerVars, stop_,
                   workers_, shutdown_pc, shutdown_returns, publish_log, ran, engineVars>>

\* a ThreadPool object exists: its workers are there, or it has been stopped
PoolExists == workers_ # {} \/ stop_

\* ThreadPool::Shutdown, up to the joins: stop_ = true; condition_.notify_all()
Shutdown ==
    /\ PoolExists
    /\ shutdown_pc = "idle"
    /\ shutdown_returns < MaxShutdowns
    /\ stop_' = TRUE
    /\ shutdown_pc' = "joining"
    /\ last_result' = "none"
    /\ UNCHANGED <<now, busVars, imVars, alVars, dbVars, scorerVars, workers_,
                   worker_exited, shutdown_returns, publish_log, ran, engineVars>>

\* ThreadPool::Shutdown returns: every worker in workers_ has been joined and
\* workers_ is cleared. EventBus::ShutdownAsyncPool then destroys its pool.
ShutdownReturn ==
    /\ shutdown_pc = "joining"
    /\ \A k \in workers_ : worker_exited[k]
    /\ workers_' = {}
    /\ shutdown_pc' = "idle"
    /\ shutdown_returns' = shutdown_returns + 1
    /\ async_pool_' = FALSE
    /\ stop_' = IF async_pool_ THEN FALSE ELSE stop_
    /\ last_result' = "none"
    /\ UNCHANGED <<now, subscribers_, next_id_, tasks_, worker_task, imVars,
                   alVars, dbVars, scorerVars, worker_exited, publish_log, ran, engineVars>>

\* subscriptions, publishing on both paths, the pool of main.cpp and its
\* shutdown
NextBus ==
    \/ \E type \in TestKinds, handler \in TestHandlers : Subscribe(type, handler)
    \/ InitAsyncPool
    \/ \E type \in TestKinds, async \in BOOLEAN : TestPublish(type, async)
    \/ \E k \in Workers : WorkerPop(k)
    \/ \E k \in Workers : WorkerRun(k)
    \/ \E k \in Workers : WorkerExit(k)
    \/ async_pool_ /\ Shutdown
    \/ ShutdownReturn

SpecBus == Init /\ [][NextBus]_vars

\* ------------------------------------------------- a pool used on its own
\* auto pool = std::make_unique<ThreadPool>(2)
ThreadPoolCreate ==
    /\ ~PoolExists
    /\ shutdown_returns = 0
    /\ ThreadPoolCreated
    /\ last_result' = "none"
    /\ UNCHANGED <<now, subscribers_, next_id_, async_pool_, imVars, alVars,
                   dbVars, scorerVars, shutdown_pc, shutdown_returns,
                   publish_log, ran, engineVars>>

\* pool->Enqueue(lambda): the n-th lambda records n when it runs
ThreadPoolEnqueue ==
    LET id == Len(publish_log) + 1
        w == Enqueue(World, [type |-> "TASK", id |-> id])
    IN /\ PoolExists
       /\ id <= MaxPublished
       /\ Commit(w)
       /\ last_result' = IF w.exception THEN "runtime_error" ELSE "enqueued"
       /\ publish_log' = Append(publish_log,
                                [id |-> id, type |-> "TASK",
                                 mode |-> IF w.exception THEN "refused" ELSE "queued",
                                 subs |-> <<>>, epoch |-> shutdown_returns,
                                 overlaps |-> shutdown_pc = "joining"])
       /\ UNCHANGED <<now, subscribers_, next_id_, async_pool_, worker_task,
                      im_running, risk_sub_id_, containment_sub_id_, al_running,
                      al_subs, database_, db_ok, tampered, restarted,
                      scorerVars, poolVars, engineVars>>

NextPool ==
    \/ ThreadPoolCreate
    \/ ThreadPoolEnqueue
    \/ \E k \in Workers : WorkerPop(k)
    \/ \E k \in Workers : WorkerRun(k)
    \/ \E k \in Workers : WorkerExit(k)
    \/ Shutdown
    \/ ShutdownReturn

SpecPool == Init /\ [][NextPool]_vars

\* ------------------------------------------------- wildcard matching
\* characters of patterns and texts: two letters and the two wildcard signs
Alphabet == {"a", "b", "*", "?"}

\* WildcardMatch is called with the pattern grown by one character
ExtendPattern(c) ==
    /\ Len(pattern) < MaxPattern
    /\ pattern' = Append(pattern, c)
    /\ wildcard_result' = WildcardMatch(pattern', text)
    /\ UNCHANGED <<now, busVars, imVars, alVars, dbVars, scorerVars, poolVars,
                   last_result, ran, publish_log, text, correlatorVars,
                   extraVars>>

\* WildcardMatch is called with the text grown by one character
ExtendText(c) ==
    /\ Len(text) < MaxText
    /\ text' = Append(text, c)
    /\ wildcard_result' = WildcardMatch(pattern, text')
    /\ UNCHANGED <<now, busVars, imVars, alVars, dbVars, scorerVars, poolVars,
                   last_result, ran, publish_log, pattern, correlatorVars,
                   extraVars>>

NextWildcard ==
    \/ \E c \in Alphabet : ExtendPattern(c)
    \/ \E c \in Alphabet : ExtendText(c)

SpecWildcard == Init /\ [][NextWildcard]_vars

\* ------------------------------------------------- correlator timelines
\* the pid the publishers' events carry
TimelinePid == 1

TempPath == <<"C:", "Users", "u", "AppData", "Local", "Temp", "x.exe">>
DocumentPath == <<"C:", "Users", "u", "Documents", "x.txt">>

\* the system clock moves on to a later reading
ClockJump(t) ==
    /\ now < t
    /\ now' = t
    /\ last_result' = "none"
    /\ UNCHANGED <<busVars, imVars, alVars, dbVars, scorerVars,
                   poolVars, publish_log, ran, engineVars>>

\* a publisher thread constructs an Event: its timestamp is the clock's
\* reading at construction
ConstructEvent(th, kind) ==
    /\ pending[th] = NoEvent
    /\ pending' = [pending EXCEPT
                     ![th] = Event(kind.type, TimelinePid, "proc", kind.metadata)]
    /\ UNCHANGED <<now, busVars, imVars, alVars, dbVars, scorerVars, poolVars,
                   last_result, ran, publish_log, pattern, text,
                   wildcard_result, process_timelines_, detected, extraVars>>

\* the thread's EventBus::Publish reaches BehaviorCorrelator::OnEvent, which
\* takes the correlator's lock, so the calls of several threads are serial
CorrelatorOnEvent(th) ==
    /\ pending[th] # NoEvent
    /\ LET event == pending[th]
           timelines == TimelinesAfter(process_timelines_, event, now)
           names == IF HasTimeline(event)
                    THEN DetectedPatterns(timelines[event.pid])
                    ELSE <<>>
           w == EmitAll(World, event.pid, names, 1)
       IN /\ \A p \in DOMAIN timelines : Len(timelines[p]) <= MaxTimeline
          /\ process_timelines_' = timelines
          /\ detected' = names
          /\ Commit(w)
    /\ pending' = [pending EXCEPT ![th] = NoEvent]
    /\ last_result' = "none"
    /\ UNCHANGED <<now, subscribers_, next_id_, async_pool_, worker_task,
                   im_running, risk_sub_id_, containment_sub_id_, al_running,
                   al_subs, database_, db_ok, tampered, restarted,
                   scorerVars, poolVars, publish_log, pattern, text,
                   wildcard_result, extraVars>>

\* clock readings around the dropper window
DropperInstants ==
    {DROPPER_WINDOW_SECONDS * 1000, DROPPER_WINDOW_SECONDS * 1000 + 1}

DropperKinds ==
    {[type |-> "FILE_CREATE", metadata |-> [file_path |-> TempPath]],
     [type |-> "FILE_CREATE", metadata |-> [file_path |-> DocumentPath]],
     [type |-> "PROCESS_CREATE", metadata |-> NoMeta],
     [type |-> "NETWORK_CONNECT", metadata |-> NoMeta],
     [type |-> "PROCESS_TERMINATE", metadata |-> NoMeta]}

NextDropper ==
    \/ \E t \in DropperInstants : ClockJump(t)
    \/ \E th \in Publishers, kind \in DropperKinds : ConstructEvent(th, kind)
    \/ \E th \in Publishers : CorrelatorOnEvent(th)

SpecDropper == Init /\ [][NextDropper]_vars

\* clock readings around the lateral-movement window
LateralInstants ==
    {LATERAL_WINDOW_SECONDS * 1000, LATERAL_WINDOW_SECONDS * 1000 + 1}

RemoteAddresses == {<<"10", "0", "0", "1">>, <<"10", "0", "0", "2">>, <<"10", "0", "0", "3">>}

LateralKinds ==
    {[type |-> "NETWORK_CONNECT",
      metadata |-> [remote_address |-> a, remote_port |-> 445]] :
        a \in RemoteAddresses}
    \cup {[type |-> "NETWORK_CONNECT",
           metadata |-> [remote_address |-> <<"10", "0", "0", "1">>,
                         remote_port |-> 443]],
          [type |-> "PROCESS_TERMINATE", metadata |-> NoMeta]}

NextLateral ==
    \/ \E t \in LateralInstants : ClockJump(t)
    \/ \E th \in Publishers, kind \in LateralKinds : ConstructEvent(th, kind)
    \/ \E th \in Publishers : CorrelatorOnEvent(th)

SpecLateral == Init /\ [][NextLateral]_vars

\* a publisher thread constructs an Event of the given pid; collectors that
\* know no pid give 0
ConstructEventOf(th, pid, kind) ==
    /\ pending[th] = NoEvent
    /\ pending' = [pending EXCEPT
                     ![th] = Event(kind.type, pid, "proc", kind.metadata)]
    /\ UNCHANGED <<now, busVars, imVars, alVars, dbVars, scorerVars, poolVars,
                   last_result, ran, publish_log, pattern, text,
                   wildcard_result, process_timelines_, detected, extraVars>>

\* clock readings a millisecond apart and one timeline window later
TimelineInstants == {1, TIMELINE_WINDOW_SECONDS * 1000 + 1}

TimelineKinds ==
    {[type |-> "FILE_CREATE", metadata |-> [file_path |-> DocumentPath]],
     [type |-> "PROCESS_TERMINATE", metadata |-> NoMeta]}

NextTimeline ==
    \/ \E t \in TimelineInstants : ClockJump(t)
    \/ \E th \in Publishers, pid \in {0, TimelinePid}, kind \in TimelineKinds :
          ConstructEventOf(th, pid, kind)
    \/ \E th \in Publishers : CorrelatorOnEvent(th)

SpecTimeline == Init /\ [][NextTimeline]_vars

\* ------------------------------------------------- incidents in the store
\* DatabaseManager::UpsertIncident with an incident of the manager: INSERT OR
\* REPLACE on the uuid; a failed step is only logged
UpsertIncident(uuid) ==
    /\ uuid \in DOMAIN incidents_
    /\ incident_rows' =
           IF db_ok
           THEN [u \in DOMAIN incident_rows \cup {uuid} |->
                    IF u = uuid THEN IncidentRow(incidents_[uuid])
                    ELSE incident_rows[u]]
           ELSE incident_rows
    /\ upserted' = [u \in DOMAIN upserted \cup {uuid} |->
                       IF u = uuid THEN incidents_[uuid] ELSE upserted[u]]
    /\ last_result' = "none"
    /\ UNCHANGED <<now, busVars, imVars, alVars, dbVars, scorerVars, poolVars,
                   ran, publish_log, pattern, text, wildcard_result,
                   correlatorVars, loaded, unsubVars, lockVars, lifeVars, restVars>>

\* DatabaseManager::LoadIncident
LoadIncident(uuid) ==
    /\ loaded' = IF uuid \in DOMAIN incident_rows
                 THEN DeserializeIncidentFromRow(incident_rows[uuid], now)
                 ELSE NoIncident
    /\ last_result' = "none"
    /\ UNCHANGED <<now, busVars, imVars, alVars, dbVars, scorerVars, poolVars,
                   ran, publish_log, pattern, text, wildcard_result,
                   correlatorVars, incident_rows, upserted, unsubVars,
                   lockVars, lifeVars, restVars>>

NextStore ==
    \/ Tick
    \/ IM_Start
    \/ \E level \in RiskLevels : PublishRisk(1, level, FALSE)
    \/ PublishContainment(1, FALSE)
    \/ \E uuid \in Uuids : UpsertIncident(uuid)
    \/ \E uuid \in Uuids : LoadIncident(uuid)

SpecStore == Init /\ [][NextStore]_vars

\* ------------------------------------------- publishing and unsubscribing
\* EventBus::Unsubscribe: erase the pair with this id from every list, under
\* the bus mutex; ids the bus has not issued yet are unknown ones
\* the subscriptions left when the given ids are unsubscribed
Without(subs, ids) == SelectSeq(subs, LAMBDA sub : sub.id \notin ids)

\* the subscriptions of one kind, in registration order
SubscriptionsFor(type) == SelectSeq(subscribers_, LAMBDA sub : sub.type = type)

Unsubscribe(id) ==
    /\ subscribers_' = Without(subscribers_, {id})
    /\ unsubscribe_returned' =
           IF id < next_id_ THEN unsubscribe_returned \cup {id}
           ELSE unsubscribe_returned
    /\ last_result' = "none"
    /\ UNCHANGED <<now, next_id_, async_pool_, tasks_, worker_task, imVars,
                   alVars, dbVars, scorerVars, poolVars, publish_log, ran,
                   pattern, text, wildcard_result, correlatorVars, storeVars,
                   publishing, late_invocations, lockVars, lifeVars, restVars>>

\* EventBus::Publish, first part: handlers_copy is filled under the bus mutex.
\* The copy holds the handlers only; here each keeps its subscription id.
PublishCopy(th, type) ==
    LET id == Len(publish_log) + 1
        handlers_copy == SubscriptionsFor(type)
    IN /\ publishing[th] = NoPublish
       /\ id <= MaxPublished
       /\ publishing' = [publishing EXCEPT
                           ![th] = IF handlers_copy = <<>> THEN NoPublish
                                   ELSE [i |-> 1, handlers_copy |-> handlers_copy,
                                         event |-> Event(type, id, "test.exe", NoMeta)]]
       /\ publish_log' = Append(publish_log,
                                [id |-> id, type |-> type, mode |-> "sync",
                                 subs |-> HandlersFor(type),
                                 epoch |-> shutdown_returns,
                                 overlaps |-> shutdown_pc = "joining"])
       /\ last_result' = "none"
       /\ UNCHANGED <<now, busVars, imVars, alVars, dbVars, scorerVars, poolVars,
                      ran, pattern, text, wildcard_result, correlatorVars,
                      storeVars, unsubscribe_returned, late_invocations,
                      lockVars, lifeVars, restVars>>

\* EventBus::Publish, the loop: the next handler of the copy is invoked without
\* the bus mutex; an exception leaves the loop and the call
PublishInvoke(th) ==
    /\ publishing[th] # NoPublish
    /\ LET p == publishing[th]
           sub == p.handlers_copy[p.i]
           w == InvokeAll(World, <<sub.handler>>, 1, p.event)
       IN /\ Commit(w)
          /\ publishing' = [publishing EXCEPT
                              ![th] = IF w.exception \/ p.i = Len(p.handlers_copy)
                                      THEN NoPublish
                                      ELSE [p EXCEPT !.i = p.i + 1]]
          /\ late_invocations' =
                 IF sub.id \in unsubscribe_returned
                 THEN late_invocations \cup {sub.id}
                 ELSE late_invocations
          /\ last_result' = IF w.exception THEN "exception" ELSE "none"
    /\ UNCHANGED <<now, subscribers_, next_id_, async_pool_, worker_task,
                   im_running, risk_sub_id_, containment_sub_id_, al_running,
                   al_subs, database_, db_ok, tampered, restarted,
                   scorerVars, poolVars, publish_log, pattern, text,
                   wildcard_result, correlatorVars, storeVars,
                   unsubscribe_returned, lockVars, lifeVars, restVars>>

NextUnsubscribe ==
    \/ \E type \in TestKinds, handler \in TestHandlers : Subscribe(type, handler)
    \/ \E id \in 1..MaxSubs : Unsubscribe(id)
    \/ \E th \in Publishers, type \in TestKinds : PublishCopy(th, type)
    \/ \E th \in Publishers : PublishInvoke(th)

SpecUnsubscribe == Init /\ [][NextUnsubscribe]_vars

\* ------------------------------------------------- threads of the pipeline
\* a thread takes its next step; lock() waits until the mutex is free
ThreadStep(t) ==
    /\ stack[t] # <<>>
    /\ LET step == Head(stack[t])
           rest == Tail(stack[t])
       IN \/ /\ step.op = "lock"
             /\ holder[step.arg] = 0
             /\ holder' = [holder EXCEPT ![step.arg] = t]
             /\ stack' = [stack EXCEPT ![t] = rest]
             /\ UNCHANGED <<tasks_, invoked_under>>
          \/ /\ step.op = "unlock"
             /\ holder' = [holder EXCEPT ![step.arg] = 0]
             /\ stack' = [stack EXCEPT ![t] = rest]
             /\ UNCHANGED <<tasks_, invoked_under>>
          \/ /\ step.op = "publish"
             /\ stack' = [stack EXCEPT ![t] = PublishSteps(step.arg) \o rest]
             /\ UNCHANGED <<tasks_, holder, invoked_under>>
          \/ /\ step.op = "publish_async"
             /\ stack' = [stack EXCEPT ![t] = PublishAsyncSteps(step.arg) \o rest]
             /\ UNCHANGED <<tasks_, holder, invoked_under>>
          \/ /\ step.op = "call"
             /\ \E steps \in HandlerSteps(step.arg) :
                   stack' = [stack EXCEPT ![t] = steps \o rest]
             /\ invoked_under' = invoked_under \cup HeldBy(t)
             /\ UNCHANGED <<tasks_, holder>>
          \/ /\ step.op = "push"
             /\ tasks_' = Append(tasks_, [type |-> step.arg])
             /\ stack' = [stack EXCEPT ![t] = rest]
             /\ UNCHANGED <<holder, invoked_under>>
          \/ /\ step.op = "pop"
             /\ tasks_' = IF tasks_ = <<>> THEN tasks_ ELSE Tail(tasks_)
             /\ stack' = [stack EXCEPT
                            ![t] = IF tasks_ = <<>> THEN <<Unlock("queue")>> \o rest
                                   ELSE <<Unlock("queue"), DoPublish(Head(tasks_).type)>>
                                        \o rest]
             /\ UNCHANGED <<holder, invoked_under>>
    /\ last_result' = "none"
    /\ UNCHANGED <<now, subscribers_, next_id_, async_pool_, worker_task, imVars,
                   alVars, dbVars, scorerVars, poolVars, publish_log, ran,
                   pattern, text, wildcard_result, correlatorVars, storeVars,
                   unsubVars, lifeVars, restVars, issued>>

\* a thread that is idle starts on the given steps
StartOn(t, steps) ==
    /\ stack[t] = <<>>
    /\ issued < MaxPublished
    /\ issued' = issued + 1
    /\ stack' = [stack EXCEPT ![t] = steps]
    /\ last_result' = "none"
    /\ UNCHANGED <<now, busVars, imVars, alVars, dbVars, scorerVars, poolVars,
                   publish_log, ran, pattern, text, wildcard_result,
                   correlatorVars, storeVars, unsubVars, lifeVars, restVars, holder,
                   invoked_under>>

\* FileMonitor: EventBus::Instance().Publish(event)
CollectorPublish == StartOn(CollectorThread, <<DoPublish("FILE_CREATE")>>)

\* ContainIncident, CloseIncident, EscalateIncident, RevertIncident: the
\* manager's mutex around TransitionState, which publishes when it accepts
OperatorCall(accepted) ==
    StartOn(OperatorThread,
            <<Lock("incident")>> \o Transitions(IF accepted THEN 1 ELSE 0)
            \o <<Unlock("incident")>>)

\* GetActiveIncidentCount, a DatabaseManager query and VerifyIntegrity
StatusQueries ==
    {<<Lock("incident"), Unlock("incident")>>,
     <<Lock("store"), Unlock("store")>>,
     LogActionSteps}

StatusQuery(steps) == StartOn(OperatorThread, steps)

\* ThreadPool::WorkerThread woken for a queued task
WorkerWake(k) ==
    /\ k \in workers_
    /\ stack[k] = <<>>
    /\ tasks_ # <<>>
    /\ stack' = [stack EXCEPT ![k] = <<Lock("queue"), Pop>>]
    /\ last_result' = "none"
    /\ UNCHANGED <<now, busVars, imVars, alVars, dbVars, scorerVars, poolVars,
                   publish_log, ran, pattern, text, wildcard_result,
                   correlatorVars, storeVars, unsubVars, lifeVars, restVars, holder, issued,
                   invoked_under>>

NextLocks ==
    \/ InitAsyncPool
    \/ CollectorPublish
    \/ \E accepted \in BOOLEAN : OperatorCall(accepted)
    \/ \E steps \in StatusQueries : StatusQuery(steps)
    \/ \E k \in Workers : WorkerWake(k)
    \/ \E t \in Threads : ThreadStep(t)

SpecLocks == Init /\ [][NextLocks]_vars

\* ------------------------------------------------ the engine's life cycle
\* CortexEDR::Initialize: the bus gets its pool and the audit logger its store
EngineInitialize ==
    /\ engine_pc = "constructed"
    /\ engine_pc' = "initialized"
    /\ ~async_pool_
    /\ async_pool_' = TRUE
    /\ ThreadPoolCreated
    /\ database_' = TRUE
    /\ last_hash_' = InitialTip(audit_log)
    /\ entry_count_' = IF audit_log # <<>> THEN Len(audit_log) ELSE entry_count_
    /\ restarted' = (restarted \/ audit_log # <<>>)
    /\ last_result' = "none"
    /\ UNCHANGED <<now, subscribers_, next_id_, imVars, al_running, al_subs,
                   audit_log, audit_seq, db_ok, write_failed, tampered,
                   scorerVars, shutdown_pc, shutdown_returns, publish_log, ran,
                   pattern, text, wildcard_result, correlatorVars, storeVars,
                   unsubVars, lockVars, containments_published, restVars>>

\* AuditLogger::Stop, the first step of CortexEDR::Stop
AL_Stop ==
    /\ engine_pc = "initialized"
    /\ al_running
    /\ al_running' = FALSE
    /\ Commit(LogAction(World, "AUDIT_STOPPED", "system", "audit_logger",
                        "Audit logging system stopped"))
    /\ subscribers_' = Without(subscribers_, {al_subs[i] : i \in DOMAIN al_subs})
    /\ al_subs' = <<>>
    /\ engine_pc' = "audit_stopped"
    /\ last_result' = "none"
    /\ UNCHANGED <<now, next_id_, async_pool_, worker_task, im_running,
                   risk_sub_id_, containment_sub_id_, database_, db_ok, tampered,
                   restarted, scorerVars, poolVars, publish_log, pattern, text,
                   wildcard_result, correlatorVars, storeVars, unsubVars,
                   lockVars, containments_published, restVars>>

\* IncidentManager::Stop, the next step of CortexEDR::Stop that touches the bus
IM_Stop ==
    /\ engine_pc = "audit_stopped"
    /\ im_running
    /\ subscribers_' = Without(subscribers_, {risk_sub_id_, containment_sub_id_})
    /\ risk_sub_id_' = 0
    /\ containment_sub_id_' = 0
    /\ im_running' = FALSE
    /\ engine_pc' = "manager_stopped"
    /\ last_result' = "none"
    /\ UNCHANGED <<now, next_id_, async_pool_, tasks_, worker_task, incidents_,
                   pid_to_incident_, files, state_changes_published, alVars,
                   dbVars, scorerVars, poolVars, publish_log, ran, pattern, text,
                   wildcard_result, correlatorVars, storeVars, unsubVars,
                   lockVars, containments_published, restVars>>

\* ContainmentManager::OnRiskThresholdExceeded after a successful suspension
ContainmentOutcome(pid) ==
    /\ containments_published < MaxPublished
    /\ Commit(PublishAsync(World,
                           Event("CONTAINMENT_ACTION", pid, "ContainmentManager",
                                 [action |-> "process_suspend",
                                  reason |-> "high_risk_level"])))
    /\ containments_published' = containments_published + 1
    /\ last_result' = "none"
    /\ UNCHANGED <<now, subscribers_, next_id_, async_pool_, worker_task,
                   im_running, risk_sub_id_, containment_sub_id_, al_running,
                   al_subs, database_, db_ok, tampered, restarted, scorerVars,
                   poolVars, publish_log, pattern, text, wildcard_result,
                   correlatorVars, storeVars, unsubVars, lockVars, engine_pc,
                   restVars>>

\* CortexEDR::Start has begun and the rule engine and the containment manager,
\* which Stop reaches after the incident manager, are still running
Producing == engine_pc \in {"initialized", "audit_stopped"}

\* CortexEDR::Stop has returned
EngineStopped == engine_pc = "manager_stopped" /\ ~async_pool_

\* CortexEDR from Initialize to the end of Stop, for one pid
NextEngine ==
    \/ EngineInitialize
    \/ engine_pc = "initialized" /\ IM_Start
    \/ engine_pc = "initialized" /\ im_running /\ AL_Start
    \/ Producing /\ PublishRisk(1, "HIGH", TRUE)
    \/ Producing /\ ContainmentOutcome(1)
    \/ \E k \in Workers : WorkerPop(k)
    \/ \E k \in Workers : WorkerRun(k)
    \/ \E k \in Workers : WorkerExit(k)
    \/ AL_Stop
    \/ IM_Stop
    \/ engine_pc = "manager_stopped" /\ async_pool_ /\ Shutdown
    \/ ShutdownReturn

SpecEngine == Init /\ [][NextEngine]_vars

\* ------------------------------------------------------- the risk scorer
\* points of each reason tag, as passed to AddRisk
ReasonPoints(reason) ==
    CASE reason = "process_from_temp_or_appdata" -> 15
      [] reason = "write_to_system_directory" -> 15
      [] reason = "connection_to_external_ip" -> 10
      [] reason = "connection_to_suspicious_port" -> 15
      [] reason = "registry_persistence_modification" -> 20

\* the events handed to the scorer for one pid
ScorerEvents(pid) ==
    {Event("PROCESS_CREATE", pid, "malware.exe",
           [image_path |-> <<"C:", "Users", "AppData", "Local", "Temp", "malware.exe">>]),
     Event("PROCESS_CREATE", pid, "notepad.exe",
           [image_path |-> <<"C:", "Windows", "notepad.exe">>]),
     Event("FILE_MODIFY", pid, "process.exe",
           [file_path |-> <<"C:", "Windows", "System32", "malicious.dll">>]),
     Event("NETWORK_CONNECT", pid, "process.exe",
           [remote_address |-> <<"185", "220", "101", "5">>, remote_port |-> 4444]),
     Event("NETWORK_CONNECT", pid, "process.exe",
           [remote_address |-> <<"185", "220", "101", "5">>, remote_port |-> 443]),
     Event("NETWORK_CONNECT", pid, "process.exe",
           [remote_address |-> <<"10", "0", "0", "5">>, remote_port |-> 443]),
     Event("REGISTRY_WRITE", pid, "process.exe",
           [key_path |-> <<"HKLM", "Software", "Run">>]),
     Event("PROCESS_TERMINATE", pid, "process.exe", NoMeta)}

\* RiskScorer::ProcessEvent(event)
ScorerProcessEvent(event) ==
    LET scores == ProcessEvent(process_scores_, event)
    IN /\ \A p \in DOMAIN scores :
             \A r \in DOMAIN scores[p].contributing_factors :
                 scores[p].contributing_factors[r] <= MaxRepeats * ReasonPoints(r)
       /\ process_scores_' = scores
       /\ scorer_last' = [type |-> event.type, pid |-> event.pid]
       /\ UNCHANGED <<now, busVars, imVars, alVars, dbVars, last_result,
                      threshold_low_, threshold_medium_, threshold_high_,
                      threshold_critical_, set_thresholds,
                   poolVars, publish_log, ran, engineVars>>

\* RiskScorer::ClearProcessScore(pid)
ScorerClear(pid) ==
    /\ process_scores_' = ClearProcessScore(process_scores_, pid)
    /\ UNCHANGED <<now, busVars, imVars, alVars, dbVars, last_result,
                   threshold_low_, threshold_medium_, threshold_high_,
                   threshold_critical_, set_thresholds, scorer_last,
                   poolVars, publish_log, ran, engineVars>>

\* the default thresholds and the ones test_riskscorer.cpp configures
ThresholdSettings == {<<30, 60, 80, 100>>, <<20, 40, 60, 80>>}

\* RiskScorer::SetThresholds takes no lock: its four assignments are separate
\* steps. A call with new values assigns threshold_low_ ...
SetThresholds(low, medium, high, critical) ==
    /\ set_thresholds.pc = 0
    /\ <<low, medium, high, critical>> # set_thresholds.args
    /\ threshold_low_' = low
    /\ set_thresholds' = [pc |-> 1, args |-> <<low, medium, high, critical>>]
    /\ UNCHANGED <<now, busVars, imVars, alVars, dbVars, last_result,
                   process_scores_, threshold_medium_, threshold_high_,
                   threshold_critical_, scorer_last,
                   poolVars, publish_log, ran, engineVars>>

\* ... and then the other three, in order
SetThresholdsNext ==
    /\ set_thresholds.pc > 0
    /\ threshold_medium_' = IF set_thresholds.pc = 1 THEN set_thresholds.args[2]
                            ELSE threshold_medium_
    /\ threshold_high_' = IF set_thresholds.pc = 2 THEN set_thresholds.args[3]
                          ELSE threshold_high_
    /\ threshold_critical_' = IF set_thresholds.pc = 3 THEN set_thresholds.args[4]
                              ELSE threshold_critical_
    /\ set_thresholds' = [set_thresholds EXCEPT !.pc = (@ + 1) % 4]
    /\ UNCHANGED <<now, busVars, imVars, alVars, dbVars, last_result,
                   process_scores_, threshold_low_, scorer_last,
                   poolVars, publish_log, ran, engineVars>>

\* one process scored with every trigger, a second one with a single trigger
NextScorer ==
    \/ \E event \in ScorerEvents(1) : ScorerProcessEvent(event)
    \/ \E event \in {e \in ScorerEvents(0) :
                       e.type \in {"REGISTRY_WRITE", "PROCESS_TERMINATE"}} :
          ScorerProcessEvent(event)
    \/ \E pid \in Pids : ScorerClear(pid)
    \/ \E t \in ThresholdSettings : SetThresholds(t[1], t[2], t[3], t[4])
    \/ SetThresholdsNext

SpecScorer == Init /\ [][NextScorer]_vars

\* ------------------------------------------------- analyser life cycle
\* Stop calls one analyser makes in a run
MaxStops == 1

\* analysers running at a time
MaxRunning == 2

\* the analysers whose running_ flag is set
RunningNow ==
    {a \in Analysers :
        CASE a = "RE" -> re_running
          [] a = "BC" -> bc_running
          [] a = "CM" -> cm_running
          [] a = "IM" -> im_running
          [] a = "AL" -> al_running}

\* a Start call of the analyser is within the bounds of the run
MayStart(a) == stops[a] <= MaxStops /\ Cardinality(RunningNow) < MaxRunning

\* the subscriptions one Start call makes: one per kind, ids in call order
SubscribeEach(kinds, handler) ==
    [i \in 1..Len(kinds) |-> Subscription(next_id_ + i - 1, kinds[i], handler)]

RE_Kinds == <<"PROCESS_CREATE", "FILE_CREATE", "FILE_MODIFY", "NETWORK_CONNECT",
              "REGISTRY_WRITE">>

BC_Kinds == <<"PROCESS_CREATE", "PROCESS_TERMINATE", "FILE_CREATE", "FILE_MODIFY",
              "NETWORK_CONNECT", "REGISTRY_WRITE">>

\* RuleEngine::Start keeps the id of its first subscription only
RE_Start ==
    /\ ~re_running
    /\ MayStart("RE")
    /\ subscribers_' = subscribers_ \o SubscribeEach(RE_Kinds, "RE.OnEvent")
    /\ re_subscription_id_' = next_id_
    /\ next_id_' = next_id_ + Len(RE_Kinds)
    /\ re_running' = TRUE
    /\ last_result' = "none"
    /\ UNCHANGED <<now, async_pool_, tasks_, worker_task, imVars, alVars, dbVars,
                   scorerVars, poolVars, publish_log, ran, pattern, text,
                   wildcard_result, correlatorVars, storeVars, unsubVars,
                   lockVars, lifeVars, stepVars, laterVars,
                   bc_running, bc_subscription_ids_,
                   cm_running, cm_subscription_id_, stops>>

\* RuleEngine::Stop
RE_Stop ==
    /\ re_running
    /\ stops["RE"] < MaxStops
    /\ subscribers_' = IF re_subscription_id_ # 0
                       THEN Without(subscribers_, {re_subscription_id_})
                       ELSE subscribers_
    /\ re_subscription_id_' = 0
    /\ re_running' = FALSE
    /\ stops' = [stops EXCEPT !["RE"] = @ + 1]
    /\ last_result' = "none"
    /\ UNCHANGED <<now, next_id_, async_pool_, tasks_, worker_task, imVars,
                   alVars, dbVars, scorerVars, poolVars, publish_log, ran,
                   pattern, text, wildcard_result, correlatorVars, storeVars,
                   unsubVars, lockVars, lifeVars, stepVars, laterVars,
                   bc_running,
                   bc_subscription_ids_, cm_running, cm_subscription_id_>>

\* BehaviorCorrelator::Start
BC_Start ==
    /\ ~bc_running
    /\ MayStart("BC")
    /\ subscribers_' = subscribers_ \o SubscribeEach(BC_Kinds, "BC.OnEvent")
    /\ bc_subscription_ids_' =
           bc_subscription_ids_ \o [i \in 1..Len(BC_Kinds) |-> next_id_ + i - 1]
    /\ next_id_' = next_id_ + Len(BC_Kinds)
    /\ bc_running' = TRUE
    /\ last_result' = "none"
    /\ UNCHANGED <<now, async_pool_, tasks_, worker_task, imVars, alVars, dbVars,
                   scorerVars, poolVars, publish_log, ran, pattern, text,
                   wildcard_result, correlatorVars, storeVars, unsubVars,
                   lockVars, lifeVars, stepVars, laterVars,
                   re_running, re_subscription_id_,
                   cm_running, cm_subscription_id_, stops>>

\* BehaviorCorrelator::Stop
BC_Stop ==
    /\ bc_running
    /\ stops["BC"] < MaxStops
    /\ subscribers_' = Without(subscribers_, {bc_subscription_ids_[i] :
                                               i \in DOMAIN bc_subscription_ids_})
    /\ bc_subscription_ids_' = <<>>
    /\ bc_running' = FALSE
    /\ stops' = [stops EXCEPT !["BC"] = @ + 1]
    /\ last_result' = "none"
    /\ UNCHANGED <<now, next_id_, async_pool_, tasks_, worker_task, imVars,
                   alVars, dbVars, scorerVars, poolVars, publish_log, ran,
                   pattern, text, wildcard_result, correlatorVars, storeVars,
                   unsubVars, lockVars, lifeVars, stepVars, laterVars,
                   re_running,
                   re_subscription_id_, cm_running, cm_subscription_id_>>

\* ContainmentManager::Start
CM_Start ==
    /\ ~cm_running
    /\ MayStart("CM")
    /\ subscribers_' = Append(subscribers_,
                              Subscription(next_id_, "RISK_THRESHOLD_EXCEEDED",
                                           "CM.OnRiskThresholdExceeded"))
    /\ cm_subscription_id_' = next_id_
    /\ next_id_' = next_id_ + 1
    /\ cm_running' = TRUE
    /\ last_result' = "none"
    /\ UNCHANGED <<now, async_pool_, tasks_, worker_task, imVars, alVars, dbVars,
                   scorerVars, poolVars, publish_log, ran, pattern, text,
                   wildcard_result, correlatorVars, storeVars, unsubVars,
                   lockVars, lifeVars, stepVars, laterVars,
                   re_running, re_subscription_id_,
                   bc_running, bc_subscription_ids_, stops>>

\* ContainmentManager::Stop
CM_Stop ==
    /\ cm_running
    /\ stops["CM"] < MaxStops
    /\ subscribers_' = IF cm_subscription_id_ # 0
                       THEN Without(subscribers_, {cm_subscription_id_})
                       ELSE subscribers_
    /\ cm_subscription_id_' = 0
    /\ cm_running' = FALSE
    /\ stops' = [stops EXCEPT !["CM"] = @ + 1]
    /\ last_result' = "none"
    /\ UNCHANGED <<now, next_id_, async_pool_, tasks_, worker_task, imVars,
                   alVars, dbVars, scorerVars, poolVars, publish_log, ran,
                   pattern, text, wildcard_result, correlatorVars, storeVars,
                   unsubVars, lockVars, lifeVars, stepVars, laterVars,
                   re_running,
                   re_subscription_id_, bc_running, bc_subscription_ids_>>

\* IncidentManager::Stop called on its own
IM_StopCall ==
    /\ im_running
    /\ stops["IM"] < MaxStops
    /\ subscribers_' = Without(subscribers_, {risk_sub_id_, containment_sub_id_} \ {0})
    /\ risk_sub_id_' = 0
    /\ containment_sub_id_' = 0
    /\ im_running' = FALSE
    /\ stops' = [stops EXCEPT !["IM"] = @ + 1]
    /\ last_result' = "none"
    /\ UNCHANGED <<now, next_id_, async_pool_, tasks_, worker_task, incidents_,
                   pid_to_incident_, files, state_changes_published, alVars,
                   dbVars, scorerVars, poolVars, publish_log, ran, pattern, text,
                   wildcard_result, correlatorVars, storeVars, unsubVars,
                   lockVars, lifeVars, stepVars, laterVars,
                   re_running, re_subscription_id_,
                   bc_running, bc_subscription_ids_, cm_running,
                   cm_subscription_id_>>

\* AuditLogger::Stop called on its own
AL_StopCall ==
    /\ al_running
    /\ stops["AL"] < MaxStops
    /\ al_running' = FALSE
    /\ Commit(LogAction(World, "AUDIT_STOPPED", "system", "audit_logger",
                        "Audit logging system stopped"))
    /\ subscribers_' = Without(subscribers_, {al_subs[i] : i \in DOMAIN al_subs})
    /\ al_subs' = <<>>
    /\ stops' = [stops EXCEPT !["AL"] = @ + 1]
    /\ last_result' = "none"
    /\ UNCHANGED <<now, next_id_, async_pool_, worker_task, im_running,
                   risk_sub_id_, containment_sub_id_, database_, db_ok, tampered,
                   restarted, scorerVars, poolVars, publish_log, pattern, text,
                   wildcard_result, correlatorVars, storeVars, unsubVars,
                   lockVars, lifeVars, stepVars, laterVars,
                   re_running, re_subscription_id_,
                   bc_running, bc_subscription_ids_, cm_running,
                   cm_subscription_id_>>

\* the kinds the collectors publish while analysers come and go
LifecycleKinds == {"PROCESS_CREATE", "FILE_CREATE"}

NextLifecycle ==
    \/ RE_Start
    \/ RE_Stop
    \/ BC_Start
    \/ BC_Stop
    \/ CM_Start
    \/ CM_Stop
    \/ IM_Start /\ MayStart("IM")
    \/ IM_StopCall
    \/ AL_Start /\ MayStart("AL")
    \/ AL_StopCall
    \/ \E type \in LifecycleKinds : TestPublish(type, FALSE)

SpecLifecycle == Init /\ [][NextLifecycle]_vars

\* ------------------------------------ audit logger started step by step
\* AuditLogger::Start up to its LogAction call: the flag and the subscriptions
AL_StartSubscribe ==
    /\ al_pc = "idle"
    /\ ~al_running
    /\ al_running' = TRUE
    /\ subscribers_' = subscribers_
          \o <<Subscription(next_id_, "RISK_THRESHOLD_EXCEEDED",
                            "AL.OnRiskThresholdExceeded"),
               Subscription(next_id_ + 1, "INCIDENT_STATE_CHANGE",
                            "AL.OnIncidentStateChange"),
               Subscription(next_id_ + 2, "CONTAINMENT_ACTION",
                            "AL.OnContainmentAction")>>
    /\ al_subs' = al_subs \o <<next_id_, next_id_ + 1, next_id_ + 2>>
    /\ next_id_' = next_id_ + 3
    /\ al_pc' = "subscribed"
    /\ last_result' = "none"
    /\ UNCHANGED <<now, async_pool_, tasks_, worker_task, imVars, database_,
                   last_hash_, entry_count_, dbVars, scorerVars, poolVars,
                   publish_log, ran, pattern, text, wildcard_result,
                   correlatorVars, storeVars, unsubVars, lockVars, lifeVars,
                   analyserVars, laterVars>>

\* the LogAction call that ends AuditLogger::Start
AL_StartMark ==
    /\ al_pc = "subscribed"
    /\ Commit(LogAction(World, "AUDIT_STARTED", "system", "audit_logger",
                        "Audit logging system started"))
    /\ al_pc' = "running"
    /\ last_result' = "none"
    /\ UNCHANGED <<now, subscribers_, next_id_, async_pool_, worker_task,
                   im_running, risk_sub_id_, containment_sub_id_, al_running,
                   al_subs, database_, db_ok, tampered, restarted, scorerVars,
                   poolVars, publish_log, pattern, text, wildcard_result,
                   correlatorVars, storeVars, unsubVars, lockVars, lifeVars,
                   analyserVars, laterVars>>

\* AuditLogger::Stop up to its loop: the flag and the LogAction call
AL_StopMark ==
    /\ al_pc = "running"
    /\ al_running
    /\ al_running' = FALSE
    /\ Commit(LogAction(World, "AUDIT_STOPPED", "system", "audit_logger",
                        "Audit logging system stopped"))
    /\ al_pc' = "marked"
    /\ last_result' = "none"
    /\ UNCHANGED <<now, subscribers_, next_id_, async_pool_, worker_task,
                   im_running, risk_sub_id_, containment_sub_id_, al_subs,
                   database_, db_ok, tampered, restarted, scorerVars, poolVars,
                   publish_log, pattern, text, wildcard_result, correlatorVars,
                   storeVars, unsubVars, lockVars, lifeVars, analyserVars, laterVars>>

\* the loop that ends AuditLogger::Stop
AL_StopUnsubscribe ==
    /\ al_pc = "marked"
    /\ subscribers_' = Without(subscribers_, {al_subs[i] : i \in DOMAIN al_subs})
    /\ al_subs' = <<>>
    /\ al_pc' = "idle"
    /\ last_result' = "none"
    /\ UNCHANGED <<now, next_id_, async_pool_, tasks_, worker_task, imVars,
                   al_running, database_, last_hash_, entry_count_, dbVars,
                   scorerVars, poolVars, publish_log, ran, pattern, text,
                   wildcard_result, correlatorVars, storeVars, unsubVars,
                   lockVars, lifeVars, analyserVars, laterVars>>

\* a collector thread publishes while the audit logger starts and stops
NextMarkers ==
    \/ AL_Initialize
    \/ AL_StartSubscribe
    \/ AL_StartMark
    \/ AL_StopMark
    \/ AL_StopUnsubscribe
    \/ \E pid \in Pids : PublishRisk(pid, "HIGH", FALSE)
    \/ \E pid \in Pids : PublishContainment(pid, FALSE)

SpecMarkers == Init /\ [][NextMarkers]_vars

\* ------------------------------------------------------ shared status
\* src/ipc/SharedMemoryServer.hpp: 0x43455452
SHARED_STATUS_MAGIC == 1128617042

SHARED_STATUS_VERSION == 1

\* Update calls in a run
MaxUpdates == 2

\* the fields of SharedStatus that are followed: the two constants and two counters
StatusFields == {"magic", "version", "active_incident_count", "total_incident_count"}

\* the record Create leaves in the mapping
Created ==
    [magic |-> SHARED_STATUS_MAGIC, version |-> SHARED_STATUS_VERSION,
     active_incident_count |-> 0, total_incident_count |-> 0]

\* what callers pass to Update: the n-th status carries n in both counters;
\* the caller may or may not have filled in magic and version
StatusInputs ==
    {[magic |-> m, version |-> v, active_incident_count |-> n,
      total_incident_count |-> n] :
        m \in {0, SHARED_STATUS_MAGIC}, v \in {0, SHARED_STATUS_VERSION},
        n \in {Cardinality(updates) + 1}}

\* SharedMemoryServer::Create: memset, then magic and version
Create ==
    /\ shm = NoStatus
    /\ shm' = Created
    /\ UNCHANGED <<baseVars, analyserVars, stepVars, scanVars, ruleVars, removalVars,
                   update, read, read_result,
                   updates>>

\* SharedMemoryServer::Update is entered with its argument; a Read in
\* progress is marked as overlapped by an Update
UpdateBegin(status) ==
    /\ shm # NoStatus
    /\ update = NoCopy
    /\ Cardinality(updates) < MaxUpdates
    /\ update' = [status |-> status, todo |-> StatusFields]
    /\ updates' = updates \cup {status}
    /\ read' = IF read = NoCopy THEN read ELSE [read EXCEPT !.overlapped = TRUE]
    /\ UNCHANGED <<baseVars, analyserVars, stepVars, scanVars, ruleVars, removalVars,
                   shm, read_result>>

\* std::memcpy(mapped_ptr_, &status, sizeof(SharedStatus)), a field at a time
\* in an order the library chooses
UpdateCopy(f) ==
    /\ f \in update.todo
    /\ shm' = [shm EXCEPT ![f] = update.status[f]]
    /\ update' = [update EXCEPT !.todo = @ \ {f}]
    /\ UNCHANGED <<baseVars, analyserVars, stepVars, scanVars, ruleVars, removalVars,
                   read, read_result, updates>>

\* mapped_ptr_->magic = SHARED_STATUS_MAGIC; mapped_ptr_->version = ...; return
UpdateEnd ==
    /\ update # NoCopy
    /\ update.todo = {}
    /\ shm' = [shm EXCEPT !.magic = SHARED_STATUS_MAGIC,
                          !.version = SHARED_STATUS_VERSION]
    /\ update' = NoCopy
    /\ UNCHANGED <<baseVars, analyserVars, stepVars, scanVars, ruleVars, removalVars,
                   read, read_result, updates>>

\* SharedMemoryClient::Read is entered on a connected client
ReadBegin ==
    /\ shm # NoStatus
    /\ read = NoCopy
    /\ read' = [status |-> [f \in StatusFields |-> 0], todo |-> StatusFields,
                overlapped |-> update # NoCopy]
    /\ UNCHANGED <<baseVars, analyserVars, stepVars, scanVars, ruleVars, removalVars,
                   shm, update, read_result,
                   updates>>

\* std::memcpy(&status, mapped_ptr_, sizeof(SharedStatus)), a field at a time
ReadCopy(f) ==
    /\ f \in read.todo
    /\ read' = [read EXCEPT !.status[f] = shm[f], !.todo = @ \ {f}]
    /\ UNCHANGED <<baseVars, analyserVars, stepVars, scanVars, ruleVars, removalVars,
                   shm, update, read_result,
                   updates>>

\* if (status.magic != SHARED_STATUS_MAGIC) return std::nullopt; return status;
ReadEnd ==
    /\ read # NoCopy
    /\ read.todo = {}
    /\ read_result' = IF read.status.magic # SHARED_STATUS_MAGIC THEN nullopt
                      ELSE [has_value |-> TRUE, value |-> read.status]
    /\ read' = NoCopy
    /\ UNCHANGED <<baseVars, analyserVars, stepVars, scanVars, ruleVars, removalVars,
                   shm, update, updates>>

NextSharedStatus ==
    \/ Create
    \/ \E status \in StatusInputs : UpdateBegin(status)
    \/ \E f \in StatusFields : UpdateCopy(f)
    \/ UpdateEnd
    \/ ReadBegin
    \/ \E f \in StatusFields : ReadCopy(f)
    \/ ReadEnd

SpecSharedStatus == Init /\ [][NextSharedStatus]_vars

\* ------------------------------------- the correlator's handler in steps
\* BehaviorCorrelator::OnEvent as a thread goes through it: the block under
\* the unique_lock, then the detectors
OnEventSteps_DetectUnderLock == <<"lock", "update", "detect", "unlock">>

OnEventSteps == <<"lock", "update", "unlock", "detect">>

\* the step of OnEvent the thread takes next
NextOp(th) == IF bc_pc[th] = 0 THEN "none" ELSE OnEventSteps[bc_pc[th]]

\* the thread's position after its step; OnEvent returns after the last
Advance(th) ==
    [bc_pc EXCEPT ![th] = IF @ = Len(OnEventSteps) THEN 0 ELSE @ + 1]

\* the event is handed back when OnEvent returns
PendingAfter(th) ==
    IF bc_pc[th] = Len(OnEventSteps) THEN [pending EXCEPT ![th] = NoEvent]
    ELSE pending

\* OnEvent's locals are gone when it returns
CopyAfter(th) ==
    IF bc_pc[th] = Len(OnEventSteps) THEN [timeline_copy EXCEPT ![th] = <<>>]
    ELSE timeline_copy

HasAfter(th) ==
    IF bc_pc[th] = Len(OnEventSteps) THEN [has_timeline EXCEPT ![th] = FALSE]
    ELSE has_timeline

\* the thread's EventBus::Publish calls OnEvent: its locals are declared
BC_Enter(th) ==
    /\ pending[th] # NoEvent
    /\ bc_pc[th] = 0
    /\ bc_pc' = [bc_pc EXCEPT ![th] = 1]
    /\ timeline_copy' = [timeline_copy EXCEPT ![th] = <<>>]
    /\ has_timeline' = [has_timeline EXCEPT ![th] = FALSE]
    /\ UNCHANGED <<baseVars, analyserVars, stepVars, shmVars, ruleVars, removalVars, mutex_>>

\* std::unique_lock<std::shared_mutex> lock(mutex_)
BC_Lock(th) ==
    /\ NextOp(th) = "lock"
    /\ mutex_ = 0
    /\ mutex_' = th
    /\ bc_pc' = Advance(th)
    /\ pending' = PendingAfter(th)
    /\ UNCHANGED <<now, last_result, busVars, imVars, alVars, dbVars, scorerVars,
                   poolVars, publish_log, ran, pattern, text, wildcard_result,
                   process_timelines_, detected, storeVars, unsubVars, lockVars,
                   lifeVars, analyserVars, stepVars, shmVars, ruleVars, removalVars, timeline_copy,
                   has_timeline>>

\* the body of the locked block: termination, insertion, cleanup, snapshot
BC_Update(th) ==
    /\ NextOp(th) = "update"
    /\ LET event == pending[th]
           timelines == TimelinesAfter(process_timelines_, event, now)
       IN /\ \A p \in DOMAIN timelines : Len(timelines[p]) <= MaxTimeline
          /\ process_timelines_' = timelines
          /\ has_timeline' = [has_timeline EXCEPT ![th] = HasTimeline(event)]
          /\ timeline_copy' =
                 [timeline_copy EXCEPT
                    ![th] = IF HasTimeline(event) THEN timelines[event.pid] ELSE @]
    /\ bc_pc' = Advance(th)
    /\ pending' = PendingAfter(th)
    /\ UNCHANGED <<now, last_result, busVars, imVars, alVars, dbVars, scorerVars,
                   poolVars, publish_log, ran, pattern, text, wildcard_result,
                   detected, storeVars, unsubVars, lockVars, lifeVars,
                   analyserVars, stepVars, shmVars, ruleVars, removalVars, mutex_>>

\* the end of the block, also reached by the return for PROCESS_TERMINATE
BC_Unlock(th) ==
    /\ NextOp(th) = "unlock"
    /\ mutex_' = 0
    /\ bc_pc' = Advance(th)
    /\ pending' = PendingAfter(th)
    /\ timeline_copy' = CopyAfter(th)
    /\ has_timeline' = HasAfter(th)
    /\ UNCHANGED <<now, last_result, busVars, imVars, alVars, dbVars, scorerVars,
                   poolVars, publish_log, ran, pattern, text, wildcard_result,
                   process_timelines_, detected, storeVars, unsubVars, lockVars,
                   lifeVars, analyserVars, stepVars, shmVars, ruleVars, removalVars>>

\* if (has_timeline) the three detectors on timeline_copy, each of which
\* publishes what it finds
BC_Detect(th) ==
    /\ NextOp(th) = "detect"
    /\ LET names == IF has_timeline[th] THEN DetectedPatterns(timeline_copy[th])
                    ELSE <<>>
           w == EmitAll(World, pending[th].pid, names, 1)
       IN /\ detected' = names
          /\ Commit(w)
    /\ bc_pc' = Advance(th)
    /\ pending' = PendingAfter(th)
    /\ timeline_copy' = CopyAfter(th)
    /\ has_timeline' = HasAfter(th)
    /\ last_result' = "none"
    /\ UNCHANGED <<now, subscribers_, next_id_, async_pool_, worker_task,
                   im_running, risk_sub_id_, containment_sub_id_, al_running,
                   al_subs, database_, db_ok, tampered, restarted, scorerVars,
                   poolVars, publish_log, pattern, text, wildcard_result,
                   process_timelines_, storeVars, unsubVars, lockVars, lifeVars,
                   analyserVars, stepVars, shmVars, ruleVars, removalVars, mutex_>>

\* the events of a dropper, and the end of the process
ScanKinds ==
    {[type |-> "FILE_CREATE", metadata |-> [file_path |-> TempPath]],
     [type |-> "PROCESS_CREATE", metadata |-> NoMeta],
     [type |-> "NETWORK_CONNECT", metadata |-> NoMeta],
     [type |-> "PROCESS_TERMINATE", metadata |-> NoMeta]}

NextScan ==
    \/ \E th \in Publishers, kind \in ScanKinds : ConstructEvent(th, kind)
    \/ \E th \in Publishers : BC_Enter(th)
    \/ \E th \in Publishers : BC_Lock(th)
    \/ \E th \in Publishers : BC_Update(th)
    \/ \E th \in Publishers : BC_Unlock(th)
    \/ \E th \in Publishers : BC_Detect(th)

SpecScan == Init /\ [][NextScan]_vars

\* ------------------------------------------------------ ruleset reload
\* LoadRules calls in a run
MaxLoads == 2

\* rule nodes in a file
MaxNodes == 2

\* A node of the rules sequence: a rule with name, type and patterns (here
\* its name), a node without a name, or a node with a value that does not
\* convert (risk_points: many), for which as<uint32_t>() throws.
RuleNodes == {"rule_a", "rule_b", "unnamed", "unconvertible"}

\* a file: not parsable, without a rules section, or a sequence of nodes
RuleFiles ==
    {[parsed |-> FALSE, has_rules |-> FALSE, nodes |-> <<>>],
     [parsed |-> TRUE, has_rules |-> FALSE, nodes |-> <<>>]}
    \cup {[parsed |-> TRUE, has_rules |-> TRUE, nodes |-> nodes] :
             nodes \in UNION {[1..n -> RuleNodes] : n \in 0..MaxNodes}}

\* RuleEngine::LoadRules up to its loop: the lock, YAML::LoadFile, the test
\* for the rules section and rules_.clear()
LoadRulesBegin(file) ==
    /\ re_mutex_ = "none"
    /\ loads < MaxLoads
    /\ loads' = loads + 1
    /\ IF file.parsed /\ file.has_rules
       THEN /\ re_mutex_' = "LoadRules"
            /\ rules_' = <<>>
            /\ load' = [nodes |-> file.nodes, next |-> 1]
            /\ load_result' = "none"
       ELSE /\ load_result' = "false"
            /\ UNCHANGED <<re_mutex_, rules_, load>>
    /\ UNCHANGED <<baseVars, analyserVars, stepVars, shmVars, scanVars, removalVars, in_place,
                   evaluated>>

\* one turn of the loop over config["rules"]
LoadRulesNode ==
    /\ re_mutex_ = "LoadRules"
    /\ load.next <= Len(load.nodes)
    /\ LET node == load.nodes[load.next]
       IN IF node = "unconvertible"
          THEN /\ load_result' = "false"
               /\ re_mutex_' = "none"
               /\ load' = NoLoad
               /\ UNCHANGED rules_
          ELSE /\ rules_' = IF node = "unnamed" THEN rules_ ELSE Append(rules_, node)
               /\ load' = [load EXCEPT !.next = @ + 1]
               /\ UNCHANGED <<load_result, re_mutex_>>
    /\ UNCHANGED <<baseVars, analyserVars, stepVars, shmVars, scanVars, removalVars, loads,
                   in_place, evaluated>>

\* every node is read: return true
LoadRulesEnd ==
    /\ re_mutex_ = "LoadRules"
    /\ load.next > Len(load.nodes)
    /\ load_result' = "true"
    /\ in_place' = rules_
    /\ re_mutex_' = "none"
    /\ load' = NoLoad
    /\ UNCHANGED <<baseVars, analyserVars, stepVars, shmVars, scanVars, removalVars, rules_,
                   loads, evaluated>>

\* RuleEngine::OnEvent: under the lock, the event is matched against each
\* rule of rules_
RuleEngineOnEvent ==
    /\ re_mutex_ = "none"
    /\ evaluated' = evaluated \cup {rules_}
    /\ UNCHANGED <<baseVars, analyserVars, stepVars, shmVars, scanVars, removalVars, rules_,
                   re_mutex_, load, load_result, loads, in_place>>

NextReload ==
    \/ \E file \in RuleFiles : LoadRulesBegin(file)
    \/ LoadRulesNode
    \/ LoadRulesEnd
    \/ RuleEngineOnEvent

SpecReload == Init /\ [][NextReload]_vars

\* ------------------------------------------------ rows removed from the store
\* the rows without the i-th
WithoutRow(rows, i) ==
    [n \in 1..(Len(rows) - 1) |-> IF n < i THEN rows[n] ELSE rows[n + 1]]

\* a raw DELETE of one row of audit_log, on a chain verify_integrity accepts
RemoveRow(i) ==
    /\ i \in DOMAIN audit_log
    /\ removed = 0 => VerifyIntegrity.ok
    /\ original' = IF removed = 0 THEN audit_log ELSE original
    /\ removed' = removed + 1
    /\ audit_log' = WithoutRow(audit_log, i)
    /\ last_result' = "none"
    /\ UNCHANGED <<now, busVars, imVars, alVars, audit_seq, db_ok, write_failed,
                   tampered, restarted, scorerVars, poolVars, publish_log, ran,
                   pattern, text, wildcard_result, correlatorVars, storeVars,
                   unsubVars, lockVars, lifeVars, analyserVars, stepVars,
                   shmVars, scanVars, ruleVars>>

NextRemoval ==
    \/ Tick
    \/ AL_Initialize
    \/ StoreToggle
    \/ \E action \in Actions : removed = 0 /\ LogActionCall(action)
    \/ \E i \in 1..MaxChain : RemoveRow(i)

SpecRemoval == Init /\ [][NextRemoval]_vars

\* ==================================================================
\* Properties of the incident manager (specification Spec)

LegalEdges ==
    {<<NEW_STATE, INVESTIGATING>>, <<INVESTIGATING, ACTIVE>>,
     <<INVESTIGATING, CLOSED>>, <<ACTIVE, CONTAINED>>, <<ACTIVE, ESCALATED>>,
     <<ACTIVE, CLOSED>>, <<ESCALATED, CONTAINED>>, <<ESCALATED, CLOSED>>,
     <<CONTAINED, CLOSED>>}

\* C1: every entry of every incident's state_history is a legal edge of the
\* state machine, and so none leaves Closed.
C1_HistoryEdgesLegal ==
    \A u \in DOMAIN incidents_ :
        \A i \in DOMAIN incidents_[u].state_history :
            <<incidents_[u].state_history[i].from_state,
              incidents_[u].state_history[i].to_state>> \in LegalEdges

\* an incident was closed after two transitions and an operator command on it
\* was then refused
C1_Witness ==
    /\ last_result = "rejected"
    /\ \E u \in DOMAIN incidents_ :
          /\ incidents_[u].state = CLOSED
          /\ Len(incidents_[u].state_history) >= 3

OpenUuids(pid) ==
    {u \in DOMAIN incidents_ :
        incidents_[u].pid = pid /\ incidents_[u].state # CLOSED}

\* C2: for every pid at most one incident of that pid is not Closed.
C2_OneOpenIncidentPerPid ==
    \A pid \in Pids : Cardinality(OpenUuids(pid)) <= 1

\* a pid with a closed incident and a newer open one
C2_Witness ==
    \E u1, u2 \in DOMAIN incidents_ :
        /\ u1 # u2
        /\ incidents_[u1].pid = incidents_[u2].pid
        /\ incidents_[u1].state = CLOSED
        /\ incidents_[u2].state # CLOSED

\* the states a risk event of the given level takes an incident through
RiskPath(state, level) ==
    CASE level = "MEDIUM" /\ state = NEW_STATE -> <<INVESTIGATING>>
      [] level = "HIGH" /\ state = NEW_STATE -> <<INVESTIGATING, ACTIVE>>
      [] level = "HIGH" /\ state = INVESTIGATING -> <<ACTIVE>>
      [] level = "CRITICAL" /\ state = NEW_STATE ->
             <<INVESTIGATING, ACTIVE, ESCALATED>>
      [] level = "CRITICAL" /\ state = INVESTIGATING -> <<ACTIVE, ESCALATED>>
      [] level = "CRITICAL" /\ state = ACTIVE -> <<ESCALATED>>
      [] OTHER -> <<>>

\* the edges of a path that starts in state
PathEdges(state, path) ==
    [i \in 1..Len(path) |-> <<IF i = 1 THEN state ELSE path[i - 1], path[i]>>]

HistoryEdges(incident) ==
    [i \in 1..Len(incident.state_history) |->
        <<incident.state_history[i].from_state,
          incident.state_history[i].to_state>>]

\* the effect the claim gives a delivered risk event of pid and level
RiskEventEffect(pid, level) ==
    LET open == OpenUuids(pid)
        fresh == open = {}
        u == IF fresh THEN Len(incidents_) + 1 ELSE CHOOSE v \in open : TRUE
        before == IF fresh THEN NEW_STATE ELSE incidents_[u].state
        edges_before == IF fresh THEN <<>> ELSE HistoryEdges(incidents_[u])
        path == RiskPath(before, level)
    IN /\ Len(incidents_') = Len(incidents_) + (IF fresh THEN 1 ELSE 0)
       /\ \A v \in DOMAIN incidents_ : v # u => incidents_'[v] = incidents_[v]
       /\ incidents_'[u].pid = pid
       /\ HistoryEdges(incidents_'[u]) = edges_before \o PathEdges(before, path)
       /\ \A i \in DOMAIN path : <<PathEdges(before, path)[i][1], path[i]>> \in LegalEdges
       /\ incidents_'[u].state = (IF path = <<>> THEN before ELSE path[Len(path)])
       /\ state_changes_published' = state_changes_published + Len(path)

\* C6: a delivered RiskThresholdExceeded event of level MEDIUM, HIGH or
\* CRITICAL takes the pid's open incident (a new one in New when there is
\* none) through the minimal legal path for that level and publishes one
\* IncidentStateChange event per transition: three for a fresh pid and CRITICAL.
C6_RiskLevelPath ==
    [][\A pid \in Pids, level \in {"MEDIUM", "HIGH", "CRITICAL"} :
          (im_running /\ PublishRisk(pid, level, FALSE))
              => RiskEventEffect(pid, level)]_vars

\* one CRITICAL event for a fresh pid: one incident, three transitions, three
\* published state changes
C6_Witness ==
    /\ Len(incidents_) = 1
    /\ Len(incidents_[1].associated_events) = 1
    /\ incidents_[1].associated_events[1].metadata = [risk_level |-> "CRITICAL"]
    /\ HistoryEdges(incidents_[1]) =
          <<<<NEW_STATE, INVESTIGATING>>, <<INVESTIGATING, ACTIVE>>,
            <<ACTIVE, ESCALATED>>>>
    /\ state_changes_published = 3

\* the incident that owns a pid: the newest one created for it
OwningUuid(pid) ==
    LET mine == {u \in DOMAIN incidents_ : incidents_[u].pid = pid}
    IN IF mine = {} THEN 0 ELSE CHOOSE u \in mine : \A v \in mine : v <= u

\* the effect the claim gives a delivered containment event of pid
ContainmentEffect(pid) ==
    LET u == OwningUuid(pid)
    IN IF u = 0 THEN incidents_' = incidents_
       ELSE /\ Len(incidents_') = Len(incidents_)
            /\ \A v \in DOMAIN incidents_ : v # u => incidents_'[v] = incidents_[v]
            /\ Len(incidents_'[u].containment_actions) =
                   Len(incidents_[u].containment_actions) + 1
            /\ incidents_'[u].state =
                   (IF incidents_[u].state \in {ACTIVE, ESCALATED}
                    THEN CONTAINED ELSE incidents_[u].state)

C9_PersistedMatchesMemory ==
    \A u \in DOMAIN incidents_ :
        /\ u \in DOMAIN files
        /\ FileJson(u).state = IncidentStateToString(incidents_[u].state)
        /\ FileJson(u).state_history =
               MapSeq(SerializedTransition, incidents_[u].state_history)

\* ==================================================================
\* Operator commands with the audit logger attached (SpecOperator)

OperatorTargets == {CONTAINED, CLOSED, ESCALATED}

OperatorCommand(uuid, target) ==
    CASE target = CONTAINED -> ContainIncident(uuid)
      [] target = CLOSED -> CloseIncident(uuid)
      [] target = ESCALATED -> EscalateIncident(uuid)

\* C7: contain, close or escalate with an unknown uuid or an illegal edge
\* returns false, leaves every incident as it was, publishes no
\* IncidentStateChange event and adds no audit entry.
C7_RejectedCommandChangesNothing ==
    [][\A uuid \in Uuids, target \in OperatorTargets :
          (/\ OperatorCommand(uuid, target)
           /\ \/ uuid \notin DOMAIN incidents_
              \/ <<incidents_[uuid].state, target>> \notin LegalEdges)
          => /\ last_result' = "rejected"
             /\ incidents_' = incidents_
             /\ state_changes_published' = state_changes_published
             /\ tasks_' = tasks_
             /\ audit_log' = audit_log
             /\ entry_count_' = entry_count_
             /\ last_hash_' = last_hash_]_vars

\* a command was refused while the audit logger was recording the state
\* changes of an existing incident
C7_Witness ==
    /\ last_result = "rejected"
    /\ al_running /\ database_
    /\ \E u \in DOMAIN incidents_ : incidents_[u].state = INVESTIGATING
    /\ \E i \in DOMAIN audit_log : audit_log[i].action = "INCIDENT_STATE_CHANGE"

\* ==================================================================
\* Delivery through the pool (SpecAsync)

\* C10: once a pattern event of the correlator has been delivered to its
\* subscribers, an incident of the pid exists and holds that event.
C10_PatternEventReachesIncident ==
    [][\A k \in Workers :
          (/\ im_running
           /\ worker_task[k] # NoTask
           /\ worker_task[k].process_name = "BehaviorCorrelator"
           /\ WorkerRun(k))
          => \E u \in DOMAIN incidents_' :
                /\ incidents_'[u].pid = worker_task[k].pid
                /\ \E i \in DOMAIN incidents_'[u].associated_events :
                      incidents_'[u].associated_events[i] = worker_task[k]]_vars

\* ==================================================================
\* The audit chain (SpecAudit)

\* the chain conditions, row by row
ChainValid(rows) ==
    \A i \in DOMAIN rows :
        /\ rows[i].prev_hash = (IF i = 1 THEN GENESIS ELSE rows[i - 1].entry_hash)
        /\ rows[i].entry_hash =
               ComputeHMAC(rows[i].timestamp \o "|" \o rows[i].action \o "|"
                           \o rows[i].actor \o "|" \o rows[i].target \o "|"
                           \o rows[i].details \o "|" \o rows[i].prev_hash)
        /\ i > 1 => rows[i].sequence_id > rows[i - 1].sequence_id

\* C3: while every store write has succeeded and no row was altered, the
\* stored rows form a valid chain from GENESIS and VerifyIntegrity accepts
\* them, whatever the order of LogAction calls and re-initialisations.
C3_ChainValidAcrossRestarts ==
    (database_ /\ ~write_failed /\ tampered = 0)
        => ChainValid(audit_log) /\ VerifyIntegrity.ok

\* rows written before and after a re-initialisation against the store
C3_Witness ==
    /\ database_ /\ restarted /\ ~write_failed /\ tampered = 0
    /\ Len(audit_log) = MaxChain
    /\ entry_count_ = MaxChain

\* C4: a LogAction whose store write fails leaves the chain tip and the
\* entry counter as they were.
C4_FailedWriteKeepsTip ==
    [][\A action \in Actions :
          (database_ /\ ~db_ok /\ LogActionCall(action))
              => last_hash_' = last_hash_ /\ entry_count_' = entry_count_]_vars

SyncPublishStep ==
    /\ Len(publish_log') = Len(publish_log) + 1
    /\ publish_log'[Len(publish_log')].mode = "sync"

\* one invocation of each handler, in the given order
Deliveries(handlers, id) == [i \in DOMAIN handlers |-> [by |-> handlers[i], id |-> id]]

\* how often a handler (or the pool) has run an event (or task)
TimesRun(by, id) == Cardinality({i \in DOMAIN ran : ran[i] = [by |-> by, id |-> id]})

\* C11: publish(event) invokes every handler subscribed to event.kind when the
\* call starts, exactly once each, in registration order and on the caller's
\* thread (before the call returns), and invokes no other handler.
C11_PublishInvokesSubscribers ==
    [][SyncPublishStep =>
          LET e == publish_log'[Len(publish_log')]
          IN ran' = ran \o Deliveries(HandlersFor(e.type), e.id)]_vars

\* C12: when a handler raises during publish, the error does not reach the
\* publisher, every handler registered after it is still invoked, and the
\* subscriber table is unchanged.
C12_RaisingHandlerIsContained ==
    [][(SyncPublishStep
        /\ \E i \in DOMAIN subscribers_ :
               /\ subscribers_[i].handler = "test.raise"
               /\ subscribers_[i].type = publish_log'[Len(publish_log')].type)
       => LET e == publish_log'[Len(publish_log')]
          IN /\ last_result' # "exception"
             /\ \A i, j \in DOMAIN subscribers_ :
                    (/\ i < j
                     /\ subscribers_[i].handler = "test.raise"
                     /\ subscribers_[i].type = e.type
                     /\ subscribers_[j].type = e.type)
                    => \E n \in (Len(ran) + 1)..Len(ran') :
                           ran'[n] = [by |-> subscribers_[j].handler, id |-> e.id]
             /\ subscribers_' = subscribers_]_vars

\* C13: events of one kind published one after another by a single thread,
\* all through publish or all through publish_async with the two-worker pool,
\* are observed by every handler in publish order.
C13_HandlersSeePublishOrder ==
    \A i, j \in DOMAIN ran :
        (/\ i < j
         /\ ran[i].by = ran[j].by
         /\ publish_log[ran[i].id].type = publish_log[ran[j].id].type
         /\ publish_log[ran[i].id].mode = publish_log[ran[j].id].mode)
        => ran[i].id < ran[j].id

\* C14: every event passed to publish_async before shutdown_async_pool is
\* invoked is delivered exactly once to each handler subscribed to its kind:
\* within the call when no pool is initialised, and by the time
\* shutdown_async_pool has returned when one is.
C14_AsyncDeliveredByShutdown ==
    \A n \in DOMAIN publish_log :
        LET e == publish_log[n]
        IN (\/ e.mode = "async_inline"
            \/ e.mode = "async_queued" /\ shutdown_returns > e.epoch)
           => \A i \in DOMAIN e.subs : TimesRun(e.subs[i], e.id) = 1

\* ==================================================================
\* Properties of the thread pool (specification SpecPool)

\* C15: once Shutdown has returned, every task enqueued before it has run to
\* completion exactly once and every worker has exited; a second Shutdown
\* finds the pool in that state and leaves it so; an Enqueue after Shutdown
\* is refused with an error and its task never runs.
C15_ShutdownDrainsAndStops ==
    shutdown_returns >= 1 =>
        /\ stop_ /\ workers_ = {} /\ tasks_ = <<>>
        /\ \A k \in Workers : worker_exited[k] /\ worker_task[k] = NoTask
        /\ \A n \in DOMAIN publish_log :
               LET e == publish_log[n]
               IN /\ e.mode = "queued" => TimesRun("task", e.id) = 1
                  /\ e.epoch >= 1 => e.mode = "refused"
                  /\ e.mode = "refused" => TimesRun("task", e.id) = 0
        /\ last_result # "enqueued"

\* two tasks were enqueued, Shutdown was called twice and has returned twice
C15_Witness ==
    /\ shutdown_returns = 2
    /\ Len(publish_log) = 2
    /\ \A n \in DOMAIN publish_log : publish_log[n].mode = "queued"
    /\ Len(ran) = 2

\* ==================================================================
\* Properties of the risk scorer (specification SpecScorer)

\* the sum of a pid's contributions, as a number
RECURSIVE FactorTotal(_, _)
FactorTotal(factors, reasons) ==
    IF reasons = {} THEN 0
    ELSE LET r == CHOOSE x \in reasons : TRUE
         IN factors[r] + FactorTotal(factors, reasons \ {r})

\* C16: for every pid the reported score lies in [0,100] and equals
\* min(100, sum of its contributing_factors); a pid that was never scored or
\* was cleared reports score 0 and level LOW.
C16_ScoreIsClampedSum ==
    \A p \in Pids :
        LET risk == GetProcessRiskScore(p)
            total == FactorTotal(risk.contributing_factors,
                                 DOMAIN risk.contributing_factors)
        IN /\ risk.score \in 0..100
           /\ risk.score = (IF total < 100 THEN total ELSE 100)
           /\ p \notin DOMAIN process_scores_ => risk.score = 0 /\ risk.level = LOW

\* pid 1's contributions add up to more than 100 and its score is 100, while
\* pid 0 was scored by the last event processed and has been cleared since
C16_Witness ==
    /\ 1 \in DOMAIN process_scores_
    /\ process_scores_[1].score = 100
    /\ FactorTotal(process_scores_[1].contributing_factors,
                   DOMAIN process_scores_[1].contributing_factors) > 100
    /\ 0 \notin DOMAIN process_scores_
    /\ scorer_last.pid = 0 /\ scorer_last.type = "REGISTRY_WRITE"

\* C17: adding the same reason tag twice for one pid replaces the previous
\* contribution: contributing_factors[reason] is the points of a single
\* trigger (and so the score does not change with the second event).
C17_RepeatedReasonReplaces ==
    \A p \in DOMAIN process_scores_ :
        \A r \in DOMAIN process_scores_[p].contributing_factors :
            process_scores_[p].contributing_factors[r] = ReasonPoints(r)

\* C18: the reported level of every pid is the level computed from its
\* current score under the thresholds configured now, also when SetThresholds
\* has been called (and has returned) after the pid was scored.
C18_LevelMatchesThresholds ==
    set_thresholds.pc = 0 =>
        \A p \in Pids :
            GetProcessRiskScore(p).level = CalculateLevel(GetProcessRiskScore(p).score)

\* C19: a pid's risk state exists once a scoring event for it has been
\* processed, and is gone once a ProcessTerminate event for it has been
\* processed.
C19_TerminateClears ==
    /\ scorer_last.type = "PROCESS_TERMINATE" =>
           scorer_last.pid \notin DOMAIN process_scores_
    /\ scorer_last.type = "REGISTRY_WRITE" =>
           scorer_last.pid \in DOMAIN process_scores_

\* ==================================================================
\* C20: for every incident with a non-empty state_history, the last entry's
\* to_state is the incident's current state, each entry's from_state is the
\* previous entry's to_state, and the first entry's from_state is New.
C20_HistoryIsAChain ==
    \A u \in DOMAIN incidents_ :
        LET h == incidents_[u].state_history
        IN Len(h) > 0 =>
              /\ h[Len(h)].to_state = incidents_[u].state
              /\ h[1].from_state = NEW_STATE
              /\ \A i \in 2..Len(h) : h[i].from_state = h[i - 1].to_state

\* an incident went through the fast-track of a CRITICAL event and was then
\* closed by the operator: four entries in its history
C20_Witness ==
    \E u \in DOMAIN incidents_ :
        /\ Len(incidents_[u].state_history) >= 4
        /\ incidents_[u].state = CLOSED

\* ==================================================================
\* Properties of incident timestamps (specification SpecTimed)

\* C21: within every incident, state_history is strictly monotonic in
\* timestamp: each entry's timestamp is strictly greater than that of the
\* entry before it, for transitions made by one event and by separate events.
C21_HistoryTimestampsIncrease ==
    \A u \in DOMAIN incidents_ :
        \A i \in 2..Len(incidents_[u].state_history) :
            incidents_[u].state_history[i].timestamp
                > incidents_[u].state_history[i - 1].timestamp

\* ==================================================================
\* Properties of the rule engine (specification SpecWildcard)

\* the reference semantics: * matches any run of characters, also the empty
\* one, ? matches exactly one character, any other character matches itself
RECURSIVE Matches(_, _)
Matches(pat, txt) ==
    IF pat = <<>> THEN txt = <<>>
    ELSE IF Head(pat) = "*"
    THEN \E n \in 0..Len(txt) : Matches(Tail(pat), SubSeq(txt, n + 1, Len(txt)))
    ELSE /\ txt # <<>>
         /\ Head(pat) = "?" \/ Head(pat) = Head(txt)
         /\ Matches(Tail(pat), Tail(txt))

\* C26: WildcardMatch agrees with the reference semantics for every pattern
\* and every text over an alphabet that includes * and ?; in particular the
\* pattern "*" matches every text and a pattern without wildcards matches
\* itself.
C26_WildcardMatchIsReference ==
    /\ wildcard_result = Matches(pattern, text)
    /\ pattern = <<"*">> => wildcard_result
    /\ (pattern = text /\ \A i \in DOMAIN pattern : pattern[i] \notin {"*", "?"})
          => wildcard_result

\* ---------------------------------------------------- correlator properties
\* the timeline OnEvent last left for the publishers' pid
Timeline ==
    IF TimelinePid \in DOMAIN process_timelines_
    THEN process_timelines_[TimelinePid] ELSE <<>>

SuspiciousFileCreate(event) ==
    /\ event.type = "FILE_CREATE"
    /\ "file_path" \in DOMAIN event.metadata
    /\ (ContainsDir(event.metadata["file_path"], "temp")
         \/ ContainsDir(event.metadata["file_path"], "appdata"))

\* indices i < j < k: a suspicious FileCreate, a ProcessCreate and a
\* NetworkConnect, the last two at most the window after the first
DropperTriple(events) ==
    \E i, j, k \in DOMAIN events :
        /\ i < j /\ j < k
        /\ SuspiciousFileCreate(events[i])
        /\ events[j].type = "PROCESS_CREATE"
        /\ events[k].type = "NETWORK_CONNECT"
        /\ events[j].timestamp <= events[i].timestamp + 30000
        /\ events[k].timestamp <= events[i].timestamp + 30000

FiredOn(pattern_name) == \E n \in DOMAIN detected : detected[n] = pattern_name

\* the timeline's timestamps never decrease along the deque
Chronological(events) ==
    \A n \in 1..(Len(events) - 1) : events[n].timestamp <= events[n + 1].timestamp

\* C23: the Dropper detector fires on a timeline exactly when it holds
\* i < j < k with a FileCreate into a temp or appdata directory, a
\* ProcessCreate and a NetworkConnect, the last two at most 30 000 ms after
\* the first
C23_DropperFiresExactlyOnTriple ==
    FiredOn("Dropper") <=> DropperTriple(Timeline)

\* on timelines in timestamp order the detector and the triple agree
C23_AgreesWhenChronological ==
    Chronological(Timeline) => (FiredOn("Dropper") <=> DropperTriple(Timeline))

SmbConnect(event) ==
    /\ event.type = "NETWORK_CONNECT"
    /\ "remote_port" \in DOMAIN event.metadata
    /\ "remote_address" \in DOMAIN event.metadata
    /\ event.metadata["remote_port"] \in {445, 135, 139}

\* connects on the three ports to three distinct addresses whose timestamps
\* lie within one window of 10 s
ThreeAddressesInWindow(events) ==
    \E a, b, c \in DOMAIN events :
        /\ SmbConnect(events[a]) /\ SmbConnect(events[b]) /\ SmbConnect(events[c])
        /\ events[a].metadata["remote_address"] # events[b].metadata["remote_address"]
        /\ events[a].metadata["remote_address"] # events[c].metadata["remote_address"]
        /\ events[b].metadata["remote_address"] # events[c].metadata["remote_address"]
        /\ \A m, n \in {a, b, c} : events[m].timestamp <= events[n].timestamp + 10000

\* C24: the lateral-movement detector fires exactly when the pid's timeline
\* holds connects on port 445, 135 or 139 to at least three distinct remote
\* addresses within one 10 s window, and never on fewer than three addresses
C24_LateralFiresExactlyOnThreeAddresses ==
    FiredOn("Lateral_Movement") <=> ThreeAddressesInWindow(Timeline)

\* on timelines in timestamp order the detector and the window agree
C24_AgreesWhenChronological ==
    Chronological(Timeline) =>
        (FiredOn("Lateral_Movement") <=> ThreeAddressesInWindow(Timeline))

\* ------------------------------------------------------- store properties
\* C25: an incident upserted to the store and loaded back by its uuid equals
\* the upserted one on every field, the timestamps of its events, risk
\* snapshots, containment records and history entries included
C25_LoadReturnsUpserted ==
    [][loaded' # loaded /\ loaded' # NoIncident
          => loaded' = upserted[loaded'.uuid]]_vars

\* what does come back: everything except the timestamps
C25_LoadKeepsAllButTimestamps ==
    [][loaded' # loaded /\ loaded' # NoIncident =>
        LET u == upserted[loaded'.uuid]
            l == loaded'
        IN /\ l.uuid = u.uuid /\ l.pid = u.pid
           /\ l.process_name = u.process_name /\ l.state = u.state
           /\ Len(l.associated_events) = Len(u.associated_events)
           /\ Len(l.risk_timeline) = Len(u.risk_timeline)
           /\ Len(l.containment_actions) = Len(u.containment_actions)
           /\ Len(l.state_history) = Len(u.state_history)
           /\ \A n \in DOMAIN u.associated_events :
                 /\ l.associated_events[n].type = u.associated_events[n].type
                 /\ l.associated_events[n].metadata = u.associated_events[n].metadata
           /\ \A n \in DOMAIN u.risk_timeline :
                 /\ l.risk_timeline[n].score = u.risk_timeline[n].score
                 /\ l.risk_timeline[n].level = u.risk_timeline[n].level
           /\ \A n \in DOMAIN u.containment_actions :
                 /\ l.containment_actions[n].action = u.containment_actions[n].action
                 /\ l.containment_actions[n].details = u.containment_actions[n].details
           /\ \A n \in DOMAIN u.state_history :
                 /\ l.state_history[n].from_state = u.state_history[n].from_state
                 /\ l.state_history[n].to_state = u.state_history[n].to_state
                 /\ l.state_history[n].reason = u.state_history[n].reason]_vars

\* ==================================================================
\* Publishing while the pool shuts down (specification SpecBus)

\* a PublishAsync call made between the start and the return of
\* ShutdownAsyncPool
OverlapsShutdown(e) == e.overlaps /\ e.mode # "sync"

\* C30: a publish_async call that overlaps shutdown_async_pool neither raises
\* nor loses the event: it is delivered to every handler subscribed to its kind
C30_AsyncDuringShutdownIsDelivered ==
    \A n \in DOMAIN publish_log :
        LET e == publish_log[n]
        IN OverlapsShutdown(e) =>
              /\ e.mode # "async_refused"
              /\ shutdown_returns > e.epoch =>
                    \A i \in DOMAIN e.subs : TimesRun(e.subs[i], e.id) = 1

\* the refusal alone, whatever the handlers do
C30_NoRefusalDuringShutdown ==
    \A n \in DOMAIN publish_log :
        OverlapsShutdown(publish_log[n]) => publish_log[n].mode # "async_refused"

\* ==================================================================
\* Unsubscribing (specification SpecUnsubscribe)

\* an Unsubscribe call for an id that is not registered
UnsubscribeOfUnknownId ==
    \E id \in 1..MaxSubs :
        /\ \A n \in DOMAIN subscribers_ : subscribers_[n].id # id
        /\ Unsubscribe(id)

\* C29: once unsubscribe(id) has returned, the handler registered under id is
\* never invoked again, neither by a later publish nor by one that another
\* thread started before; unsubscribing an unknown or removed id changes
\* nothing
C29_NoInvocationAfterUnsubscribe ==
    /\ [](late_invocations = {})
    /\ [][UnsubscribeOfUnknownId => subscribers_' = subscribers_]_vars

\* a publish that starts after the Unsubscribe has returned does not invoke
\* the handler, and an unknown id changes nothing
C29_LaterPublishSkipsHandler ==
    /\ [][\A th \in Publishers :
            publishing[th] = NoPublish /\ publishing'[th] # NoPublish =>
               \A n \in DOMAIN publishing'[th].handlers_copy :
                  publishing'[th].handlers_copy[n].id \notin unsubscribe_returned]_vars
    /\ [][UnsubscribeOfUnknownId => subscribers_' = subscribers_]_vars

\* ==================================================================
\* Locks of the pipeline (specification SpecLocks)

\* the mutexes of the subsystems that publish
OwnLocks == {"rule_engine", "incident", "containment", "correlator"}

\* C27: no subsystem holds its own lock (rule engine, incident manager,
\* containment manager, correlator) while handlers are invoked synchronously by
\* a publish it issued, the fallback of publish_async without a pool included
C27_NoOwnLockWhileHandlersRun ==
    invoked_under \cap OwnLocks = {}

\* the correlator alone keeps to it
C27_CorrelatorLockIsReleased ==
    "correlator" \notin invoked_under

\* a thread whose next step is lock() on a mutex that is owned
Waiting(t) ==
    /\ stack[t] # <<>>
    /\ Head(stack[t]).op = "lock"
    /\ holder[Head(stack[t]).arg] # 0

\* threads that wait for mutexes owned by threads of the same set, so that
\* none of them ever goes on
Deadlocked ==
    \E blocked \in SUBSET Threads :
        /\ blocked # {}
        /\ \A t \in blocked :
              Waiting(t) /\ holder[Head(stack[t]).arg] \in blocked

\* C28: the pipeline is deadlock-free: under any interleaving of collector
\* publishes, derived publishes through the pool or on the caller's thread,
\* operator calls and status queries, no thread waits forever for a mutex
C28_DeadlockFree == ~Deadlocked

\* a thread waits for the manager's mutex while its owner, inside publishes
\* nested on one thread, owns the rule engine's and the containment
\* manager's mutexes too
C28_Witness ==
    \E t, u \in Threads :
        /\ Waiting(t)
        /\ Head(stack[t]).arg = "incident"
        /\ {"rule_engine", "containment", "incident"} \subseteq HeldBy(u)

\* ==================================================================
\* The audit trail over the engine's life (specification SpecEngine)

\* the entries of the chain with the given action
EntriesOf(action) ==
    Cardinality({i \in DOMAIN audit_log : audit_log[i].action = action})

\* C22: every successful incident state change and every ContainmentAction
\* event between engine Start and the end of engine Stop produces exactly one
\* audit entry: once Stop has returned the chain holds one entry for each
C22_EveryActionAudited ==
    EngineStopped =>
        /\ EntriesOf("INCIDENT_STATE_CHANGE") = state_changes_published
        /\ EntriesOf("CONTAINMENT_ACTION") = containments_published

\* no state change and no containment outcome is ever entered twice
C22_NeverMoreThanOneEntry ==
    /\ EntriesOf("INCIDENT_STATE_CHANGE") <= state_changes_published
    /\ EntriesOf("CONTAINMENT_ACTION") <= containments_published

\* ==================================================================
\* Order of the audit entries of one incident (specification SpecEngine)

\* the details AuditLogger::OnIncidentStateChange writes for the k-th
\* transition of an incident: the dump of the metadata TransitionState gave
\* the event
StateChangeDetails(uuid, k) ==
    LET trans == incidents_[uuid].state_history[k]
    IN JsonDump([incident_uuid |-> ToString(uuid),
                 from_state |-> IncidentStateToString(trans.from_state),
                 to_state |-> IncidentStateToString(trans.to_state),
                 reason |-> trans.reason])

\* the i-th entry of the chain records the k-th transition of the incident
Records(i, uuid, k) ==
    /\ audit_log[i].action = "INCIDENT_STATE_CHANGE"
    /\ audit_log[i].details = StateChangeDetails(uuid, k)

\* C31: the audit entries that record the state changes of one incident are in
\* the chain in the order of the transitions in its state_history
C31_AuditFollowsHistory ==
    \A uuid \in DOMAIN incidents_ :
        \A i, j \in DOMAIN audit_log :
            \A k, l \in DOMAIN incidents_[uuid].state_history :
                Records(i, uuid, k) /\ Records(j, uuid, l) /\ i < j => k <= l

\* ==================================================================
\* Closed incidents (specification Spec)

\* the parts of an incident the life cycle writes
IncidentBody(incident) ==
    <<incident.state, incident.state_history, incident.associated_events,
      incident.risk_timeline, incident.containment_actions>>

\* C32: once an incident is Closed no RiskThresholdExceeded event,
\* ContainmentAction event or operator command alters its state,
\* state_history, associated_events, risk_timeline or containment_actions
C32_ClosedIsFrozen ==
    [][\A uuid \in DOMAIN incidents_ :
          incidents_[uuid].state = CLOSED =>
              IncidentBody(incidents_'[uuid]) = IncidentBody(incidents_[uuid])]_vars

\* what does hold: a Closed incident keeps its state, its history, its events
\* and its risk snapshots
C32_ClosedKeepsStateAndHistory ==
    [][\A uuid \in DOMAIN incidents_ :
          incidents_[uuid].state = CLOSED =>
              /\ incidents_'[uuid].state = CLOSED
              /\ incidents_'[uuid].state_history = incidents_[uuid].state_history
              /\ incidents_'[uuid].associated_events = incidents_[uuid].associated_events
              /\ incidents_'[uuid].risk_timeline = incidents_[uuid].risk_timeline]_vars

\* ==================================================================
\* Retention in the process timelines (specification SpecTimeline)

\* BehaviorCorrelator::OnEvent has run for the event a thread was publishing
Handled(th) == pending[th] # NoEvent /\ pending'[th] = NoEvent

\* after the step every event the pid's timeline retains is at most the
\* timeline window older than the step's clock reading
FreshAfter(pid) ==
    pid \in DOMAIN process_timelines_' =>
        \A n \in DOMAIN process_timelines_'[pid] :
            process_timelines_'[pid][n].timestamp + TIMELINE_WINDOW_SECONDS * 1000 >= now

\* C33: after an insert into a process timeline every retained event is no
\* more than 60 s older than the insert time, in whatever order events of
\* different timestamps are inserted; pid 0 never gets a timeline; a
\* ProcessTerminate removes the pid's timeline
C33_TimelineRetention ==
    [][\A th \in Publishers :
          Handled(th) =>
              /\ HasTimeline(pending[th]) => FreshAfter(pending[th].pid)
              /\ 0 \notin DOMAIN process_timelines_'
              /\ pending[th].type = "PROCESS_TERMINATE" =>
                     pending[th].pid \notin DOMAIN process_timelines_']_vars

\* what does hold: pid 0 has no timeline, a ProcessTerminate removes the
\* timeline, and the oldest retained arrival is within the window
C33_FrontIsFresh ==
    [][\A th \in Publishers :
          Handled(th) =>
              /\ 0 \notin DOMAIN process_timelines_'
              /\ pending[th].type = "PROCESS_TERMINATE" =>
                     pending[th].pid \notin DOMAIN process_timelines_'
              /\ HasTimeline(pending[th])
                    /\ process_timelines_'[pending[th].pid] # <<>> =>
                     Head(process_timelines_'[pending[th].pid]).timestamp
                         + TIMELINE_WINDOW_SECONDS * 1000 >= now]_vars

\* ==================================================================
\* Repeated detections (specification SpecDropper)

\* the names the step's scan emits
FiresNext(pattern_name) == \E n \in DOMAIN detected' : detected'[n] = pattern_name

\* the timeline the step leaves for the publishers' pid
TimelineNext ==
    IF TimelinePid \in DOMAIN process_timelines_'
    THEN process_timelines_'[TimelinePid] ELSE <<>>

\* the step's event is the last member of a triple of the timeline it leaves
AddsDropperOccurrence ==
    \E i, j \in DOMAIN TimelineNext :
        /\ i < j /\ j < Len(TimelineNext)
        /\ SuspiciousFileCreate(TimelineNext[i])
        /\ TimelineNext[j].type = "PROCESS_CREATE"
        /\ TimelineNext[Len(TimelineNext)].type = "NETWORK_CONNECT"
        /\ TimelineNext[j].timestamp <= TimelineNext[i].timestamp + 30000
        /\ TimelineNext[Len(TimelineNext)].timestamp
               <= TimelineNext[i].timestamp + 30000

\* C34: for one pid a pattern occurrence is reported once: after a detection
\* of the Dropper pattern has been emitted, a later event of the pid that adds
\* no new occurrence causes no further emission of it
C34_ReportedOnce ==
    [][\A th \in Publishers :
          Handled(th) /\ FiredOn("Dropper") /\ ~AddsDropperOccurrence =>
              ~FiresNext("Dropper")]_vars

\* C34 as the code and the correlator's description have it: every scan that
\* finds the pattern reports it, once per scan. After a detection of the
\* Dropper pattern each later event of the pid that is appended with the
\* earlier events kept causes one further emission of it.
C34_ReportedByEveryScan ==
    [][\A th \in Publishers :
          Handled(th) =>
              /\ FiredOn("Dropper") /\ TimelineNext = Append(Timeline, pending[th]) =>
                     FiresNext("Dropper")
              /\ \A n, m \in DOMAIN detected' :
                     detected'[n] = detected'[m] => n = m]_vars

\* a Dropper detection emitted again for an event that is no part of a triple
C34_Witness ==
    /\ FiredOn("Dropper")
    /\ Len(Timeline) = 4
    /\ DropperTriple(SubSeq(Timeline, 1, 3))
    /\ Timeline[4].type = "FILE_CREATE"
    /\ ~SuspiciousFileCreate(Timeline[4])

\* ==================================================================
\* Analysers stopped and started again
\* ==================================================================
\* the handlers an analyser registers
HandlersOf(a) ==
    CASE a = "RE" -> {"RE.OnEvent"}
      [] a = "BC" -> {"BC.OnEvent"}
      [] a = "CM" -> {"CM.OnRiskThresholdExceeded"}
      [] a = "IM" -> {"IM.OnRiskThresholdExceeded", "IM.OnContainmentAction"}
      [] a = "AL" -> {"AL.OnRiskThresholdExceeded", "AL.OnIncidentStateChange",
                      "AL.OnContainmentAction"}

Running(a) == a \in RunningNow

\* the positions on the bus that hold a handler of the analyser for the kind
Registered(a, type) ==
    {i \in DOMAIN subscribers_ :
        subscribers_[i].handler \in HandlersOf(a) /\ subscribers_[i].type = type}

AllKinds == {subscribers_[i].type : i \in DOMAIN subscribers_}

\* C35: after Stop() of an analyser has returned the bus holds no handler
\* registered by it, so after Start(); Stop(); Start() the bus holds one
\* handler of the analyser per subscribed kind and each published event is
\* processed by it once
C35_StopRemovesEveryHandler ==
    /\ \A a \in Analysers : \A type \in AllKinds :
          /\ ~Running(a) => Registered(a, type) = {}
          /\ Cardinality(Registered(a, type)) <= 1
    /\ \A n \in DOMAIN publish_log : \A a \in Analysers : \A h \in HandlersOf(a) :
          TimesRun(h, publish_log[n].id) <= 1

\* the analysers that keep every subscription id do as C35 says
C35_HoldsButForRuleEngine ==
    /\ \A a \in Analysers \ {"RE"} : \A type \in AllKinds :
          /\ ~Running(a) => Registered(a, type) = {}
          /\ Cardinality(Registered(a, type)) <= 1
    /\ \A type \in AllKinds :
          /\ ~re_running => Registered("RE", type) = {} \/ type # "PROCESS_CREATE"
          /\ Cardinality(Registered("RE", "PROCESS_CREATE")) <= 1
    /\ \A n \in DOMAIN publish_log :
          /\ TimesRun("BC.OnEvent", publish_log[n].id) <= 1
          /\ publish_log[n].type = "PROCESS_CREATE" =>
                 TimesRun("RE.OnEvent", publish_log[n].id) <= 1

\* ==================================================================
\* Lifecycle markers of the audit chain
\* ==================================================================
Markers == {"AUDIT_STARTED", "AUDIT_STOPPED"}

\* the newest marker row before row i, 0 when there is none
MarkerBefore(i) ==
    LET before == {j \in 1..(i - 1) : audit_log[j].action \in Markers}
    IN IF before = {} THEN 0 ELSE CHOOSE j \in before : \A k \in before : k <= j

\* C36: in the audit chain the AUDIT_STARTED entry of a run precedes and its
\* AUDIT_STOPPED entry follows every entry the run's event subscriptions
\* produce, however Start and Stop interleave with publishes: the newest
\* marker before an entry written by a handler is an AUDIT_STARTED
C36_MarkersEncloseRun ==
    \A i \in DOMAIN audit_log :
        audit_log[i].action \notin Markers =>
            /\ MarkerBefore(i) # 0
            /\ audit_log[MarkerBefore(i)].action = "AUDIT_STARTED"

\* ==================================================================
\* Shared status
\* ==================================================================
\* a status as it stands in the mapping once Update has returned
Forced(status) ==
    [status EXCEPT !.magic = SHARED_STATUS_MAGIC, !.version = SHARED_STATUS_VERSION]

\* the values one call has written: the record of Create, or one Update's
Written == {Forced(status) : status \in updates} \cup {Created}

\* what the last call to return has written
LastWritten ==
    IF updates = {} THEN Created
    ELSE Forced(CHOOSE status \in updates :
                    status.active_incident_count = Cardinality(updates))

\* a Read returns
ReadReturns == read # NoCopy /\ read' = NoCopy

\* C37: a SharedStatus returned by Read carries the field values of exactly
\* one Update call, never a mixture of two updates and never a magic other
\* than the constant, also when Read runs concurrently with Update; Update(S)
\* followed by Read returns S with magic and version forced to their constants
C37_ReadReturnsOneUpdate ==
    [][ReadReturns =>
          /\ read_result'.has_value => read_result'.value \in Written
          /\ ~read.overlapped =>
                 read_result'.has_value /\ read_result'.value = LastWritten]_vars

\* a Read that overlaps no Update returns what the last Update wrote, and no
\* Read returns a record whose magic is not the constant
C37_QuietReadReturnsUpdate ==
    [][ReadReturns =>
          /\ read_result'.has_value =>
                 read_result'.value.magic = SHARED_STATUS_MAGIC
          /\ ~read.overlapped =>
                 read_result'.has_value /\ read_result'.value = LastWritten]_vars

\* ==================================================================
\* Detection outside the timeline lock
\* ==================================================================
\* the thread is about to run the detectors, which publish what they find
Scanning(th) == NextOp(th) = "detect"

\* C38: the correlator never runs a pattern detector and never publishes
\* while holding the timeline lock: detection runs on a snapshot copied under
\* the lock, so an insert by another thread is never blocked for the duration
\* of a scan
C38_ScanOutsideLock ==
    \A th \in Publishers :
        /\ Scanning(th) => mutex_ # th
        /\ mutex_ = th => NextOp(th) \in {"update", "unlock"}

\* one thread is about to scan its snapshot while the other owns the lock,
\* having inserted an event the snapshot does not have
C38_Witness ==
    \E th, other \in Publishers :
        /\ Scanning(th)
        /\ has_timeline[th]
        /\ mutex_ = other
        /\ NextOp(other) = "unlock"
        /\ has_timeline[other]
        /\ process_timelines_[TimelinePid] # timeline_copy[th]

\* ==================================================================
\* Reloading the ruleset
\* ==================================================================
\* the rulesets files can define: the named nodes of a file, in order
Rulesets ==
    {SelectSeq(file.nodes, LAMBDA node : node \in {"rule_a", "rule_b"}) :
        file \in {f \in RuleFiles : \A i \in DOMAIN f.nodes :
                                       f.nodes[i] # "unconvertible"}}

\* C39: reloading the ruleset is atomic: an event matched concurrently with
\* a reload is evaluated against either the complete old ruleset or the
\* complete new one, and a reload that fails part-way leaves the previously
\* loaded ruleset in place
C39_ReloadIsAtomic ==
    /\ load_result = "false" /\ re_mutex_ = "none" => rules_ = in_place
    /\ \A ruleset \in evaluated : ruleset \in Rulesets

\* a reload that succeeds is atomic: no event is matched while LoadRules has
\* the ruleset cleared or partly filled
C39_NoMatchDuringReload ==
    [][evaluated' # evaluated =>
          /\ load = NoLoad
          /\ evaluated' = evaluated \cup {rules_}
          /\ load_result # "false" => rules_ = in_place]_vars

\* ==================================================================
\* Rows removed from the audit chain
\* ==================================================================
\* the rows are the first rows of the chain, all of them or none included
IsPrefix(rows, chain) ==
    /\ Len(rows) <= Len(chain)
    /\ \A n \in DOMAIN rows : rows[n] = chain[n]

\* C40: verify_integrity depends only on the rows present in the store: it
\* returns true for every prefix of a chain it accepts, the empty chain
\* included, so removing the most recent entries is not reported as an
\* integrity failure, while removing any entry that is not at the tail is
C40_OnlyTailRemovalPasses ==
    removed > 0 => (VerifyIntegrity.ok <=> IsPrefix(audit_log, original))

\* the first of two rows is removed and the second no longer verifies, with
\* the logger's own count and tip as they were
C40_Witness ==
    /\ removed = 1
    /\ Len(original) = 2
    /\ audit_log = <<original[2]>>
    /\ ~VerifyIntegrity.ok
    /\ VerifyIntegrity.seq = original[2].sequence_id

====
